---- MODULE Spec2Model ----
(***************************************************************************)
(* The coalescing pool allocator of libjwutil (include/jw/alloc.h):        *)
(* basic_pool_resource, its pool_node tree, and pool_resource.             *)
(*                                                                         *)
(* Memory is a range of byte addresses.  A pool_node lives at the first    *)
(* bytes of the free chunk it describes, so a node is named by the address *)
(* of its chunk; nodes maps the address of every pool_node that is in the  *)
(* tree to its fields.  Sizes and addresses are size_t / uintptr_t values: *)
(* arithmetic on them is the source's arithmetic modulo 2^SizeBits.        *)
(***************************************************************************)
EXTENDS Integers, Sequences, FiniteSets, TLC

\* ------------------------------------------------------------------ ABI
\* The layout constants of an LP64 build.
SizeofSizeT == 8
SizeofUint8 == 1
AlignofVoidPtr == 8
SizeofPoolNode == 32
AlignofPoolNode == 8
SizeofPoolType == 16
NULL == 0
\* std::uint8_t holds 0 .. 255.
Uint8Range == 256

\* Width of size_t and of a pointer in the model.  Every value the model
\* computes is reduced modulo 2^SizeBits where the source's unsigned
\* arithmetic would wrap.
SizeBits == 13
SizeMax == 2 ^ SizeBits

Wrap(x) == x % SizeMax

Max(x, y) == IF x > y THEN x ELSE y

\* next[higher] with higher a bool: next[0] is slot 1, next[1] is slot 2.
Idx(b) == IF b THEN 2 ELSE 1

NoNext == <<NULL, NULL>>

\* pool_node { size } : next { nullptr, nullptr }, alloc_hi { false }
pool_node(s) == [size |-> s, next |-> NoNext, alloc_hi |-> FALSE]

\* std::destroy_at(hi) / storage reused: the object is no longer a node.
Drop(h, x) == [y \in DOMAIN h \ {x} |-> h[y]] @@ << >>

\* placement new of a pool_node at address x
Place(h, x, s) == (x :> pool_node(s)) @@ h

begin(x) == x
end(h, x) == Wrap(x + h[x].size)

size_or_zero(h, x) == IF x # NULL THEN h[x].size ELSE 0

\* ------------------------------------------------------------ pool_node
\* Every tree operation takes the node store h and returns [h, r]: the
\* store after the operation and the pointer the C++ function returns.

RECURSIVE combine(_, _, _)
combine(h, this, node) ==
    LET swap   == h[node].size > h[this].size
        dst    == IF swap THEN node ELSE this
        nd     == IF swap THEN this ELSE node
        higher == Idx(nd > dst)
        sub    == h[dst].next[higher]
        rec    == IF sub # NULL THEN combine(h, sub, nd) ELSE [h |-> h, r |-> nd]
    IN  [h |-> [rec.h EXCEPT ![dst].next[higher] = rec.r], r |-> dst]

RECURSIVE insert(_, _, _)
insert(h, this, node) ==
    LET higher == node > this
        H      == Idx(higher)
        L      == Idx(~higher)
        lo     == IF higher THEN this ELSE node
        hi     == IF higher THEN node ELSE this
    IN  IF end(h, lo) = begin(hi)
        THEN LET tmp == h[this].next
                 h1  == Drop([h EXCEPT ![lo].size = Wrap(@ + h[hi].size),
                                       ![this].next = NoNext], hi)
                 r1  == IF tmp[H] # NULL THEN insert(h1, tmp[H], lo)
                                         ELSE [h |-> h1, r |-> lo]
             IN  IF tmp[L] # NULL THEN combine(r1.h, r1.r, tmp[L]) ELSE r1
        ELSE LET r1 == IF h[this].next[H] # NULL THEN insert(h, h[this].next[H], node)
                                                 ELSE [h |-> h, r |-> node]
                 n1 == r1.r
             IN  IF r1.h[n1].size > r1.h[this].size
                 THEN [h |-> [r1.h EXCEPT ![this].next[H] = r1.h[n1].next[L],
                                          ![n1].next[L] = this],
                       r |-> n1]
                 ELSE [h |-> [r1.h EXCEPT ![this].next[H] = n1], r |-> this]

minmax(h, this) ==
    LET n0 == h[this].next[1]
        n1 == h[this].next[2]
    IN  IF size_or_zero(h, n0) > size_or_zero(h, n1)
        THEN [min |-> n1, max |-> n0]
        ELSE [min |-> n0, max |-> n1]

\* A faulty erase that keeps one child only.
erase_one_child(h, this) ==
    [h |-> [h EXCEPT ![this].next = NoNext],
     r |-> IF h[this].next[1] # NULL THEN h[this].next[1] ELSE h[this].next[2]]

erase(h, this) ==
    LET n0 == h[this].next[1]
        n1 == h[this].next[2]
        r  == IF n0 = NULL THEN [h |-> h, r |-> n1]
              ELSE IF n1 = NULL THEN [h |-> h, r |-> n0]
              ELSE combine(h, n0, n1)
    IN  [h |-> [r.h EXCEPT ![this].next = NoNext], r |-> r.r]

\* A faulty replace that always hands the old root's children to node.
replace_inherit(h, this, node) ==
    [h |-> [h EXCEPT ![node].next = h[this].next], r |-> node]

replace(h, this, node) ==
    LET max == Max(size_or_zero(h, h[this].next[1]), size_or_zero(h, h[this].next[2]))
    IN  IF h[node].size > max
        THEN [h |-> [h EXCEPT ![node].next = h[this].next], r |-> node]
        ELSE LET e == erase(h, this) IN combine(e.h, e.r, node)

\* A faulty resize that leaves the shrunk node where it is.
resize_in_place(h, this, s) ==
    [h |-> [h EXCEPT ![this].size = s], r |-> this]

resize(h, this, s) ==
    LET h1 == [h EXCEPT ![this].size = s]
        mm == minmax(h1, this)
    IN  IF mm.max # NULL /\ h1[mm.max].size > h1[this].size
        THEN LET r1 == IF mm.min # NULL THEN combine(h1, mm.max, mm.min)
                                        ELSE [h |-> h1, r |-> mm.max]
                 h2 == [r1.h EXCEPT ![this].next = NoNext]
             IN  combine(h2, r1.r, this)
        ELSE [h |-> h1, r |-> this]

\* ------------------------------------------------- basic_pool_resource
\* The tree of a pool: its root pointer and its nodes.
Tree(r, h) == [root |-> r, nodes |-> h]

max_chunk_size(t) == size_or_zero(t.nodes, t.root)

max_size(t, alignment) ==
    LET size     == max_chunk_size(t)
        overhead == Wrap(alignment + SizeofSizeT + SizeofUint8)
    IN  IF size < overhead THEN 0
        ELSE IF Wrap(size - overhead) < SizeofPoolNode + AlignofPoolNode THEN 0
        ELSE Wrap(size - overhead)

grow_impl(t, ptr, bytes) ==
    LET h1 == Place(t.nodes, ptr, bytes)
    IN  IF t.root # NULL
        THEN LET r == insert(h1, t.root, ptr) IN Tree(r.r, r.h)
        ELSE Tree(ptr, h1)

\* A faulty aligned_ptr: no rounding to the alignment.
aligned_ptr_unrounded(p, align, down) == p

\* The lambda aligned_ptr of allocate_impl.
aligned_ptr(p, align, down) ==
    LET b == p - (p % align)
    IN  IF ~down /\ b # p THEN Wrap(b + align) ELSE b

\* The alignment allocate_impl works with.
adjusted_align(a) == Max(a, AlignofVoidPtr)

\* The chunk size allocate_impl looks for: payload, alignment slack and
\* header, at least one pool_node plus its alignment.
needed_size(n, a) ==
    Max(Wrap(n + adjusted_align(a) + SizeofSizeT + SizeofUint8),
        SizeofPoolNode + AlignofPoolNode)

\* A faulty choice of branch: a root chunk that cannot be split is never
\* used whole.
branch_of_no_whole(p_size, n, alloc_hi) ==
    IF p_size > Wrap(n + SizeofPoolNode + AlignofPoolNode)
    THEN (IF alloc_hi THEN "split_hi" ELSE "split_lo")
    ELSE "grow"

\* Which branch of allocate_impl a root chunk of p_size bytes takes.
branch_of(p_size, n, alloc_hi) ==
    IF p_size > Wrap(n + SizeofPoolNode + AlignofPoolNode)
    THEN (IF alloc_hi THEN "split_hi" ELSE "split_lo")
    ELSE IF p_size >= n THEN "whole" ELSE "grow"

\* The body of allocate_impl below the retry label for a non-empty tree
\* whose root is large enough: [tree, p, p_size, branch], where (p, p_size)
\* is the chunk handed to the caller.
take_chunk(t, n) ==
    LET h        == t.nodes
        root     == t.root
        p_size   == h[root].size
        p        == begin(root)
        hi       == h[root].alloc_hi
        br       == branch_of(p_size, n, hi)
        split_at == IF hi THEN Wrap(end(h, root) - n) ELSE Wrap(begin(root) + n)
        q        == aligned_ptr(split_at, AlignofPoolNode, hi)
        q_size   == Wrap(p_size - (q - p))
        p_rest   == Wrap(p_size - q_size)
        toggle(r) == [r.h EXCEPT ![r.r].alloc_hi = ~@]
    IN  IF br = "split_hi"
        THEN LET r == resize(h, root, p_rest)
             IN  [tree |-> Tree(r.r, toggle(r)), p |-> q, p_size |-> q_size, branch |-> br]
        ELSE IF br = "split_lo"
        THEN LET r  == replace(Place(h, q, q_size), root, q)
                 r2 == [h |-> Drop(r.h, root), r |-> r.r]
             IN  [tree |-> Tree(r2.r, toggle(r2)), p |-> p, p_size |-> p_rest, branch |-> br]
        ELSE LET r == erase(h, root)
             IN  [tree |-> Tree(r.r, Drop(r.h, root)), p |-> p, p_size |-> p_size, branch |-> br]

\* A faulty user pointer: the header is not padded up to the alignment.
user_ptr_unpadded(p, a) == Wrap(p + SizeofSizeT + SizeofUint8)

\* The pointer allocate_impl returns for a chunk starting at p.
user_ptr(p, a) ==
    aligned_ptr(Wrap(p + SizeofSizeT + SizeofUint8), adjusted_align(a), FALSE)

\* The value the std::uint8_t before the returned pointer receives.
header_offset(p, a) == (user_ptr(p, a) - p) % Uint8Range

\* size(p), reading the header byte from bytes and the size word from words.
size(words, bytes, p) ==
    LET offset == bytes[p - 1]
    IN  Wrap(words[p - offset] - offset)

\* ---------------------------------------------------------------- state
VARIABLES
    root,        \* basic_pool_resource::root
    nodes,       \* the pool_node objects of the tree, by address
    num_allocs,  \* basic_pool_resource::num_allocs
    sizeAt,      \* memory: the std::size_t header words written by allocate_impl
    offAt,       \* memory: the std::uint8_t header bytes written by allocate_impl
    allocs,      \* live allocations: returned pointer -> the chunk taken for it
    given,       \* the spans handed to grow so far, as <<address, bytes>>
    last,        \* the last call: its arguments and what it returned
    ub,          \* the last call read or wrote memory it does not own
    pools,       \* pool_resource::pools, as a sequence of <<address, bytes>>
    asked,       \* the growths of the last call of the arena
    pools_data,  \* pool_resource::pools.data(), the address of the array
    upstream,    \* the memory_resource *res of the arena
    pc,          \* where each thread is in the call it is making
    lock,        \* the thread that holds the Lock, or NoThread
    local,       \* the local variables of each thread's call
    access,      \* the last access to root, the tree or pools, and by whom
    head,        \* circular_queue_storage_base::head
    tail,        \* circular_queue_storage_base::tail
    storage,     \* the slots of the queue's storage: an element, or Raw
    reg,         \* what the producer and the consumer hold in local variables
    produced,    \* the elements whose push has returned true, in order
    consumed,    \* the elements front() has returned and pop_front removed
    res,         \* pool_resource::res, the pointer to the upstream resource
    source,      \* the pool_resource the arena was move-constructed from
    dyn,         \* mask and ptr of circular_queue_dynamic_storage_base
    vec          \* an sso_vector: near.bits.sso, size() and capacity()

vars == <<root, nodes, num_allocs, sizeAt, offAt, allocs, given, last, ub, pools, asked,
          pools_data, upstream, pc, lock, local, access, head, tail, storage,
          reg, produced, consumed, res, source, dyn, vec>>

\* The variables of the threads that share a pool, of a circular_queue,
\* and of a pool apart from last and ub.
lockVars == <<pc, lock, local, access>>
queueVars == <<head, tail, storage>>
spscVars == <<reg, produced, consumed>>
moveVars == <<res, source>>
dynVars == <<dyn>>
vecVars == <<vec>>
poolVars == <<root, nodes, num_allocs, sizeAt, offAt, allocs, given, pools, asked,
              pools_data, upstream>>

tree == Tree(root, nodes)

\* ---------------------------------------------------------------- bounds
\* Most live allocations at once, and most spans handed to grow.
MaxLive == 2
MaxSpans == 5

\* The spans a caller may hand to grow(span): free memory of the caller,
\* aligned for pool_node.  Several are contiguous with one another.
Spans ==
    { <<1024, 64>>, <<1152, 40>>, <<1192, 48>>, <<1280, 136>>, <<1536, 48>> }

\* The (bytes, alignment) requests callers make.
Requests == { <<8, 8>>, <<16, 32>> }

Overlap(s1, s2) == s1[1] < s2[1] + s2[2] /\ s2[1] < s1[1] + s1[2]

Call(op, n, a, ret, threw, branch, p, bytes) ==
    [op |-> op, n |-> n, a |-> a, ret |-> ret, threw |-> threw,
     branch |-> branch, p |-> p, bytes |-> bytes]

\* An upstream resource nothing has been allocated from: live holds the
\* allocations it has outstanding as <<address, bytes, alignment>>, freed
\* the deallocate calls the last call of the arena made, and bad is set by
\* a deallocate that matches no outstanding allocation.
NoUpstream == [live |-> {}, freed |-> << >>, bad |-> FALSE]

\* The threads that share a pool, and no thread.
Threads == { 1, 2 }
NoThread == 0

\* No access to shared state has been made.
NoAccess == [thread |-> NoThread, object |-> "none", write |-> FALSE, held |-> FALSE]
NoLocal == [p |-> NULL, bytes |-> 0, n |-> 0, a |-> 0, count |-> 0, array |-> NULL]

\* No thread is inside a call.
InitThreads ==
    /\ pc = [t \in Threads |-> "idle"]
    /\ lock = NoThread
    /\ local = [t \in Threads |-> NoLocal]
    /\ access = NoAccess

\* log2 of N, the number of slots of a static_circular_queue<T, N>; N has
\* a single bit.
QueueBits == 2
N == 2 ^ QueueBits

\* A slot that holds no constructed element.
Raw == "raw"

\* circular_queue_static_storage() : head { 0 }, tail { 0 }, raw storage.
InitQueue ==
    /\ head = 0
    /\ tail = 0
    /\ storage = [i \in 0..(N - 1) |-> Raw]

\* The producer and the consumer of a queue shared by two threads have
\* loaded nothing, and nothing has gone through the queue.
NoReg == [h |-> 0, t |-> 0, v |-> Raw]
InitSpsc ==
    /\ reg = [t \in Threads |-> NoReg]
    /\ produced = << >>
    /\ consumed = << >>

\* The address of the resource std::pmr::get_default_resource() returns.
get_default_resource == 64

\* A pool_resource that does not exist, or exists no longer.
NoObject == [alive |-> FALSE, root |-> NULL, num_allocs |-> 0, pools |-> << >>,
             pools_data |-> NULL, res |-> NULL]

\* pool_resource(upstream = get_default_resource()) : res { upstream }, and
\* no other pool_resource exists.
InitMove ==
    /\ res = get_default_resource
    /\ source = NoObject

\* circular_queue_dynamic_storage_base(size, a) with size = N:
\* mask { bit_ceil(size) - 1 }, ptr { allocate(alloc, allocated_size()) }.
\* slots is the number of elements the block at ptr was allocated for,
\* live whether that block is still allocated, and lost the number of
\* blocks the queue allocated that are neither at ptr nor deallocated.
InitDyn == dyn = [mask |-> N - 1, slots |-> N, live |-> TRUE, lost |-> 0]

\* sso_vector<int> on this ABI: the size and alignment of int, the
\* default of min_sso_size, and vector_data { capacity, size, ptr }.
SizeofInt == 4
AlignofInt == 4
min_sso_size == 0
SizeofVectorData == 3 * SizeofSizeT

\* default_sso_size, sso_size and min_alloc_size of sso_vector; 8ul is the
\* least min_alloc_size.  std::bit_ceil(sso_size) is 8 for sso_size 5.
LeastAlloc == 8
default_sso_size == (SizeofVectorData - AlignofInt) \div SizeofInt
sso_size == Max(min_sso_size, default_sso_size)

\* sso_vector() : init_allocate(0), the elements are in the object.  The
\* field aborted is set when an assert has ended the program.
InitVec == vec = [sso |-> TRUE, size |-> 0, capacity |-> sso_size, aborted |-> FALSE]

\* No queue is used.
NoQueue == UNCHANGED <<queueVars, spscVars, moveVars, dynVars, vecVars>>

\* The pool is used by one caller at a time, and no queue is used.
PoolOnly == UNCHANGED <<lockVars, queueVars, spscVars, moveVars, dynVars, vecVars>>

InitPool ==
    /\ root = NULL
    /\ nodes = << >>
    /\ num_allocs = 0
    /\ sizeAt = << >>
    /\ offAt = << >>
    /\ allocs = << >>
    /\ given = {}
    /\ last = Call("init", 0, 0, NULL, FALSE, "none", NULL, 0)
    /\ ub = FALSE
    /\ pools = << >>
    /\ asked = << >>
    /\ pools_data = NULL
    /\ upstream = NoUpstream
    /\ InitThreads
    /\ InitQueue
    /\ InitSpsc
    /\ InitMove
    /\ InitDyn
    /\ InitVec

\* basic_pool_resource() : the default constructor.
Init == InitPool

\* ------------------------------------------------------------- operations
\* grow(span) -> do_grow -> grow_impl
do_grow(ptr, bytes) ==
    LET t == grow_impl(tree, ptr, bytes)
    IN  /\ root' = t.root
        /\ nodes' = t.nodes

Grow(span) ==
    /\ ~ub
    /\ Cardinality(given) < MaxSpans
    /\ \A g \in given : ~Overlap(g, span)
    /\ do_grow(span[1], span[2])
    /\ given' = given \cup {span}
    /\ last' = Call("grow", 0, 0, NULL, FALSE, "none", span[1], span[2])
    /\ UNCHANGED <<num_allocs, sizeAt, offAt, allocs, ub, pools, asked, pools_data, upstream>>

\* auto_grow of basic_pool_resource: throw std::bad_alloc { }.  Nothing has
\* been written when it is called.
ThrowBadAlloc(n, a) ==
    /\ last' = Call("allocate", n, a, NULL, TRUE, "none", NULL, 0)
    /\ UNCHANGED <<root, nodes, num_allocs, sizeAt, offAt, allocs, given, ub>>

\* The part of allocate_impl after the retry loop has found a chunk.  When
\* the split point or the header lies outside the root chunk the writes go
\* to memory the pool does not own: the call either returns with the values
\* computed below or the process takes a fault.
FinishAllocate(t, n, a, needed) ==
    LET c    == take_chunk(t, needed)
        ret  == user_ptr(c.p, a)
        wild == needed > max_chunk_size(t) \/ ret - c.p + n > c.p_size
    IN  \/ /\ root' = c.tree.root
           /\ nodes' = c.tree.nodes
           /\ num_allocs' = num_allocs + 1
           /\ sizeAt' = (c.p :> c.p_size) @@ sizeAt
           /\ offAt' = ((ret - 1) :> header_offset(c.p, a)) @@ offAt
           /\ allocs' = (ret :> [p |-> c.p, bytes |-> c.p_size]) @@ allocs
           /\ last' = Call("allocate", n, a, ret, FALSE, c.branch, c.p, c.p_size)
           /\ ub' = wild
        \/ /\ wild
           /\ last' = Call("allocate", n, a, NULL, FALSE, "fault", NULL, 0)
           /\ ub' = TRUE
           /\ UNCHANGED <<root, nodes, num_allocs, sizeAt, offAt, allocs>>

\* allocate(n, a) -> do_allocate -> allocate_impl on a basic_pool_resource
Allocate(n, a) ==
    LET needed == needed_size(n, a)
    IN  /\ ~ub
        /\ IF root = NULL
           THEN ThrowBadAlloc(n, a)
           ELSE IF branch_of(nodes[root].size, needed, nodes[root].alloc_hi) = "grow"
           THEN ThrowBadAlloc(n, a)
           ELSE FinishAllocate(tree, n, a, needed) /\ UNCHANGED given
        /\ UNCHANGED <<pools, asked, pools_data, upstream>>

\* Words a read of memory that holds no header may return.
GarbageWords == { 0, SizeofPoolNode + AlignofPoolNode }

\* deallocate(ptr) -> do_deallocate, for a pointer allocate returned and
\* that has not been deallocated yet.
Deallocate(ptr) ==
    LET off == offAt[ptr - 1]
        p   == ptr - off
    IN  /\ ~ub
        /\ ptr \in DOMAIN allocs
        /\ \E bytes \in (IF p \in DOMAIN sizeAt THEN {sizeAt[p]} ELSE GarbageWords) :
              /\ do_grow(p, bytes)
              /\ last' = Call("deallocate", 0, 0, ptr, FALSE, "none", p, bytes)
        /\ num_allocs' = num_allocs - 1
        /\ sizeAt' = [x \in DOMAIN sizeAt \ {allocs[ptr].p} |-> sizeAt[x]]
        /\ offAt' = [x \in DOMAIN offAt \ {ptr - 1} |-> offAt[x]]
        /\ allocs' = [x \in DOMAIN allocs \ {ptr} |-> allocs[x]]
        /\ ub' = (p \notin DOMAIN sizeAt)
        /\ UNCHANGED <<given, pools, asked, pools_data, upstream>>

Next ==
    \/ \E span \in Spans : Grow(span) /\ PoolOnly
    \/ \E r \in Requests : num_allocs < MaxLive /\ Allocate(r[1], r[2]) /\ PoolOnly
    \/ \E ptr \in DOMAIN allocs : Deallocate(ptr) /\ PoolOnly

Spec == Init /\ [][Next]_vars

\* ------------------------------------------------- a pool over one span
\* Most live allocations at once in the pool over one span.
MaxLiveOneSpan == 4

\* The span the pool is constructed over, <<address, bytes>>.
OneSpan == <<1024, 400>>

RequestsOneSpan == { <<8, 8>> }

\* basic_pool_resource(span) : grow(span) on the empty pool.
InitOneSpan ==
    LET t == grow_impl(Tree(NULL, << >>), OneSpan[1], OneSpan[2])
    IN  /\ root = t.root
        /\ nodes = t.nodes
        /\ num_allocs = 0
        /\ sizeAt = << >>
        /\ offAt = << >>
        /\ allocs = << >>
        /\ given = {OneSpan}
        /\ last = Call("grow", 0, 0, NULL, FALSE, "none", OneSpan[1], OneSpan[2])
        /\ ub = FALSE
        /\ pools = << >>
        /\ asked = << >>
        /\ pools_data = NULL
        /\ upstream = NoUpstream
        /\ InitThreads
        /\ InitQueue
        /\ InitSpsc
        /\ InitMove
        /\ InitDyn
        /\ InitVec

\* allocate and deallocate only: no grow after construction.
NextOneSpan ==
    \/ \E r \in RequestsOneSpan :
          num_allocs < MaxLiveOneSpan /\ Allocate(r[1], r[2]) /\ PoolOnly
    \/ \E ptr \in DOMAIN allocs : Deallocate(ptr) /\ PoolOnly

SpecOneSpan == InitOneSpan /\ [][NextOneSpan]_vars

\* ------------------------------------- requests at the edge of the types
\* Most live allocations at once in the pool fed with edge requests.
MaxLiveWide == 2

\* The span handed to grow: it starts on a multiple of 256.
SpansWide == { <<2048, 512>> }

\* An ordinary request, alignments at and around the range of the
\* std::uint8_t header byte, and a size near the top of std::size_t.
RequestsWide == { <<8, 8>>, <<100, 128>>, <<100, 256>>, <<SizeMax - 41, 1>> }

NextWide ==
    \/ \E span \in SpansWide : Grow(span) /\ PoolOnly
    \/ \E r \in RequestsWide : num_allocs < MaxLiveWide /\ Allocate(r[1], r[2]) /\ PoolOnly
    \/ \E ptr \in DOMAIN allocs : Deallocate(ptr) /\ PoolOnly

SpecWide == Init /\ [][NextWide]_vars

\* ------------------------------------------- requests sized by max_size
\* Most live allocations at once in the pool probed with max_size.
MaxLiveProbe == 2

\* The spans handed to grow, none contiguous with another.
SpansProbe == { <<1024, 64>>, <<1152, 48>>, <<1280, 136>> }

\* The alignments passed to max_size and allocate, and how far above
\* max_size(a) the request is.
AlignsProbe == { 1, 8, 16 }
AboveMaxSize == { 0, 1 }

\* allocate(max_size(a) + d, a): the caller sizes its request by max_size.
AllocateMaxSize(a, d) == Allocate(Wrap(max_size(tree, a) + d), a)

NextProbe ==
    \/ \E span \in SpansProbe : Grow(span) /\ PoolOnly
    \/ \E a \in AlignsProbe, d \in AboveMaxSize :
          num_allocs < MaxLiveProbe /\ AllocateMaxSize(a, d) /\ PoolOnly
    \/ \E ptr \in DOMAIN allocs : Deallocate(ptr) /\ PoolOnly

SpecProbe == Init /\ [][NextProbe]_vars

\* --------------------------------------------------------- pool_resource
\* Most live allocations at once in the arena, and the number of blocks the
\* upstream resource has room for.
MaxLiveArena == 2
MaxPools == 3

\* The addresses at which the upstream resource places a block.
UpstreamAddrs == { 1024, 1104, 5120 }

\* Arguments of pool_resource::grow(bytes) and of allocate on the arena.
GrowSizesArena == { 4096 }
RequestsArena == { <<8, 8>>, <<100, 8>>, <<SizeMax \div 2 + 100, 1>> }

\* The addresses at which the upstream resource places an array of pools,
\* and the alignment the array is allocated with.
ArrayAddrs == { 128, 256 }
AlignofPoolType == 8

\* What the upstream resource does to the allocations of a grow_alloc: it
\* serves them when it has room ("none"), or it may throw std::bad_alloc
\* on the block or on the array of pools.
NoFaults == { "none" }
AnyFault == { "none", "block", "array" }

\* res->allocate(bytes, alignof(pool_node)): the addresses it may return,
\* none when it has no room (it throws std::bad_alloc).
upstream_allocate(ps, bytes) ==
    { x \in UpstreamAddrs :
        /\ Len(ps) < MaxPools
        /\ x + bytes < SizeMax
        /\ \A i \in 1..Len(ps) : ~Overlap(<<x, bytes>>, ps[i]) }

\* res->allocate(bytes, alignof(pool_type)): the free addresses for an
\* array of pools.
upstream_allocate_array(u, bytes) ==
    { y \in ArrayAddrs : \A l \in u.live : ~Overlap(<<y, bytes>>, <<l[1], l[2]>>) }

\* res->deallocate(p, bytes, alignment)
upstream_deallocate(u, blk) ==
    [live  |-> u.live \ {blk},
     freed |-> Append(u.freed, blk),
     bad   |-> u.bad \/ blk \notin u.live]

\* pool_resource::size(): the bytes of all pools.
RECURSIVE pools_size(_)
pools_size(ps) == IF ps = << >> THEN 0 ELSE Wrap(Head(ps)[2] + pools_size(Tail(ps)))

\* The arena: the tree, the span of pools and the upstream resource.
Arena(t, ps, pd, u) == [tree |-> t, pools |-> ps, pools_data |-> pd, upstream |-> u]

\* A faulty catch block of grow_alloc: the block is not given back.
return_block_never(u, blk) == u

\* The catch block of grow_alloc: res->deallocate(p, bytes, alignof(pool_node))
return_block(u, blk) == upstream_deallocate(u, blk)

\* grow_alloc(bytes) on the arena ar: the outcomes [arena, ok], one for each
\* address the upstream resource may return and one for each allocation it
\* may throw on; ok is FALSE when grow_alloc threw.
grow_alloc(ar, bytes, faults) ==
    LET ps     == ar.pools
        u      == ar.upstream
        blocks == upstream_allocate(ps, bytes)
        count  == Len(ps) + 1
        old    == <<ar.pools_data, SizeofPoolType * Len(ps), AlignofPoolType>>
        served(x) ==
            LET blk == <<x, bytes, AlignofPoolNode>>
                u1  == [u EXCEPT !.live = @ \cup {blk}]
                ys  == upstream_allocate_array(u1, SizeofPoolType * count)
                y   == CHOOSE z \in ys : \A w \in ys : z <= w
                arr == <<y, SizeofPoolType * count, AlignofPoolType>>
                u2  == [u1 EXCEPT !.live = @ \cup {arr}]
                u3  == IF ar.pools_data # NULL THEN upstream_deallocate(u2, old) ELSE u2
            IN  (IF ys = {} \/ "array" \in faults
                 THEN { [arena |-> [ar EXCEPT !.upstream = return_block(u1, blk)],
                         ok |-> FALSE] }
                 ELSE {})
                \cup
                (IF ys = {} THEN {}
                 ELSE { [arena |-> Arena(grow_impl(ar.tree, x, bytes),
                                         Append(ps, <<x, bytes>>), y, u3),
                         ok |-> TRUE] })
    IN  (IF blocks = {} \/ "block" \in faults
         THEN { [arena |-> ar, ok |-> FALSE] } ELSE {})
        \cup UNION { served(x) : x \in blocks }

\* The size pool_resource::auto_grow(needed) passes to grow, and the size
\* grow_alloc then asks upstream for.
auto_grow(ps, needed) == Max(Wrap(needed * 2), pools_size(ps) \div 2)
grow_alloc_bytes(bytes) == Max(bytes, SizeofPoolNode)

\* One growth of the arena: the block size asked for upstream, the size()
\* at that moment, and whether grow_alloc returned.
Asked(bytes, total, ok) == [bytes |-> bytes, size |-> total, ok |-> ok]

\* The loop of allocate_impl from the label retry, with auto_grow of
\* pool_resource: the outcomes [arena, asked, ok], ok = FALSE when a
\* growth threw.
RECURSIVE retry(_, _, _, _)
retry(ar, log, n, faults) ==
    LET t == ar.tree
    IN  IF t.root # NULL /\ branch_of(t.nodes[t.root].size, n, t.nodes[t.root].alloc_hi) # "grow"
        THEN { [arena |-> ar, asked |-> log, ok |-> TRUE] }
        ELSE LET bytes == grow_alloc_bytes(auto_grow(ar.pools, n))
                 total == pools_size(ar.pools)
             IN  UNION { IF o.ok
                         THEN retry(o.arena, Append(log, Asked(bytes, total, TRUE)), n, faults)
                         ELSE { [arena |-> o.arena,
                                 asked |-> Append(log, Asked(bytes, total, FALSE)),
                                 ok |-> FALSE] } :
                         o \in grow_alloc(ar, bytes, faults) }

\* The arena of the current state, with no deallocate call made yet by the
\* call that begins.
arena == Arena(tree, pools, pools_data, [upstream EXCEPT !.freed = << >>])

SetArena(ar) ==
    /\ root' = ar.tree.root
    /\ nodes' = ar.tree.nodes
    /\ pools' = ar.pools
    /\ pools_data' = ar.pools_data
    /\ upstream' = ar.upstream

\* pool_resource() : no pools, an empty tree.
InitArena == InitPool

\* pool_resource::grow(bytes) -> do_grow -> grow_alloc
GrowArena(bytes, faults) ==
    LET b == grow_alloc_bytes(bytes)
    IN  /\ ~ub
        /\ \E o \in grow_alloc(arena, b, faults) :
              /\ SetArena(o.arena)
              /\ asked' = <<Asked(b, pools_size(pools), o.ok)>>
              /\ last' = IF o.ok
                         THEN Call("grow", 0, 0, NULL, FALSE, "none",
                                   o.arena.pools[Len(o.arena.pools)][1], b)
                         ELSE Call("grow", 0, 0, NULL, TRUE, "upstream", NULL, b)
        /\ UNCHANGED <<num_allocs, sizeAt, offAt, allocs, given, ub>>

\* allocate(n, a) -> do_allocate -> allocate_impl on a pool_resource
AllocateArena(n, a, faults) ==
    LET needed == needed_size(n, a)
    IN  /\ ~ub
        /\ \E o \in retry(arena, << >>, needed, faults) :
              /\ pools' = o.arena.pools
              /\ pools_data' = o.arena.pools_data
              /\ upstream' = o.arena.upstream
              /\ asked' = o.asked
              /\ IF o.ok
                 THEN FinishAllocate(o.arena.tree, n, a, needed)
                 ELSE /\ root' = o.arena.tree.root
                      /\ nodes' = o.arena.tree.nodes
                      /\ last' = Call("allocate", n, a, NULL, TRUE, "upstream", NULL, 0)
                      /\ UNCHANGED <<num_allocs, sizeAt, offAt, allocs, ub>>
        /\ UNCHANGED given

\* The upstream resource of this arena throws only when it has no room.
NextArena ==
    \/ \E bytes \in GrowSizesArena : GrowArena(bytes, NoFaults) /\ PoolOnly
    \/ \E r \in RequestsArena :
          num_allocs < MaxLiveArena /\ AllocateArena(r[1], r[2], NoFaults) /\ PoolOnly
    \/ \E ptr \in DOMAIN allocs : Deallocate(ptr) /\ PoolOnly

SpecArena == InitArena /\ [][NextArena]_vars

\* ----------------------------------- pool_resource, upstream may throw
\* Most live allocations at once in the arena whose upstream may throw.
MaxLiveUpstream == 1

\* Arguments of pool_resource::grow(bytes) and of allocate on this arena.
GrowSizesUpstream == { 80 }
RequestsUpstream == { <<8, 8>>, <<SizeMax \div 2 + 100, 1>> }

\* The loop of release: res->deallocate(i.data(), i.size_bytes(),
\* alignof(pool_node)) for every pool i, in the order of the array.
RECURSIVE release_pools(_, _)
release_pools(u, ps) ==
    IF ps = << >> THEN u
    ELSE release_pools(upstream_deallocate(u, <<Head(ps)[1], Head(ps)[2], AlignofPoolNode>>),
                       Tail(ps))

\* A faulty release of the array: the size of one pool_type, not of all.
release_array_one(u, pd, ps) ==
    upstream_deallocate(u, <<pd, SizeofPoolType, AlignofPoolType>>)

\* res->deallocate(pools.data(), pools.size_bytes(), alignof(pool_type))
release_array(u, pd, ps) ==
    upstream_deallocate(u, <<pd, SizeofPoolType * Len(ps), AlignofPoolType>>)

\* pool_resource::reset() and basic_pool_resource::reset().  The nodes and
\* the headers lived in the pools.
reset ==
    /\ num_allocs' = 0
    /\ root' = NULL
    /\ nodes' = << >>
    /\ pools' = << >>
    /\ pools_data' = NULL
    /\ sizeAt' = << >>
    /\ offAt' = << >>
    /\ allocs' = << >>

\* pool_resource::release(), also what ~pool_resource() runs.
Release ==
    LET u0 == [upstream EXCEPT !.freed = << >>]
        u1 == release_pools(u0, pools)
        u2 == release_array(u1, pools_data, pools)
    IN  /\ ~ub
        /\ upstream' = IF pools_data # NULL THEN u2 ELSE u0
        /\ reset
        /\ last' = Call("release", 0, 0, NULL, FALSE, "none", NULL, 0)
        /\ asked' = << >>
        /\ UNCHANGED <<given, ub>>

NextUpstream ==
    \/ \E bytes \in GrowSizesUpstream : GrowArena(bytes, AnyFault) /\ PoolOnly
    \/ \E r \in RequestsUpstream :
          num_allocs < MaxLiveUpstream /\ AllocateArena(r[1], r[2], AnyFault) /\ PoolOnly
    \/ \E ptr \in DOMAIN allocs : Deallocate(ptr) /\ PoolOnly
    \/ Release /\ PoolOnly

SpecUpstream == InitArena /\ [][NextUpstream]_vars

\* ------------------------------------- pool_resource, move construction
\* pool_resource(pool_resource&& o) : base { std::move(o) },
\* pools { std::move(o.pools) } { o.reset(); }.  The base takes num_allocs
\* and root and resets those of o, the span of pools is copied, and reset
\* empties o.  The list has no initialiser for res, which gets its default
\* member initialiser { }.  From here on the variables of the arena are
\* those of the new object, and source is o.
MoveConstruct ==
    /\ ~ub
    /\ ~source.alive
    /\ source' = [alive |-> TRUE, root |-> NULL, num_allocs |-> 0, pools |-> << >>,
                  pools_data |-> NULL, res |-> res]
    /\ res' = NULL
    /\ last' = Call("move", 0, 0, NULL, FALSE, "none", NULL, 0)
    /\ asked' = << >>
    /\ upstream' = [upstream EXCEPT !.freed = << >>]
    /\ UNCHANGED <<root, nodes, num_allocs, sizeAt, offAt, allocs, given, ub, pools,
                   pools_data>>

\* ~pool_resource() of the object moved from: release() with its own pools
\* and res.
DestroySource ==
    LET u0 == [upstream EXCEPT !.freed = << >>]
        u1 == release_pools(u0, source.pools)
        u2 == release_array(u1, source.pools_data, source.pools)
    IN  /\ ~ub
        /\ source.alive
        /\ upstream' = IF source.pools_data # NULL THEN u2 ELSE u0
        /\ source' = NoObject
        /\ last' = Call("destroy", 0, 0, NULL, FALSE, "none", NULL, 0)
        /\ asked' = << >>
        /\ UNCHANGED <<root, nodes, num_allocs, sizeAt, offAt, allocs, given, ub, pools,
                       pools_data, res>>

\* A member function is called through res, which is null.
NullResource(op) ==
    /\ ~ub
    /\ res = NULL
    /\ ub' = TRUE
    /\ last' = Call(op, 0, 0, NULL, FALSE, "fault", NULL, 0)
    /\ UNCHANGED <<root, nodes, num_allocs, sizeAt, offAt, allocs, given, pools, asked,
                   pools_data, upstream, res, source>>

\* allocate_impl reaches auto_grow: the tree is empty or its root too small.
must_grow(t, n, a) ==
    \/ t.root = NULL
    \/ branch_of(t.nodes[t.root].size, needed_size(n, a), t.nodes[t.root].alloc_hi) = "grow"

\* grow(bytes), allocate(n, a) and release() on an arena that may have been
\* move-constructed: grow_alloc calls res->allocate, release calls
\* res->deallocate when pools.data() is not null.
GrowMoved(bytes) ==
    IF res = NULL THEN NullResource("grow")
    ELSE GrowArena(bytes, NoFaults) /\ UNCHANGED moveVars

AllocateMoved(n, a) ==
    IF res = NULL /\ must_grow(tree, n, a) THEN NullResource("allocate")
    ELSE AllocateArena(n, a, NoFaults) /\ UNCHANGED moveVars

ReleaseMoved ==
    IF res = NULL /\ pools_data # NULL THEN NullResource("release")
    ELSE Release /\ UNCHANGED moveVars

\* The threads and the queues are not used.
MoveOnly == UNCHANGED <<lockVars, queueVars, spscVars, dynVars, vecVars>>

NextMove ==
    \/ \E bytes \in GrowSizesUpstream : GrowMoved(bytes) /\ MoveOnly
    \/ \E r \in RequestsUpstream :
          num_allocs < MaxLiveUpstream /\ AllocateMoved(r[1], r[2]) /\ MoveOnly
    \/ \E ptr \in DOMAIN allocs : Deallocate(ptr) /\ PoolOnly
    \/ ReleaseMoved /\ MoveOnly
    \/ MoveConstruct /\ MoveOnly
    \/ DestroySource /\ MoveOnly

SpecMove == InitArena /\ [][NextMove]_vars

\* ------------------------------------------ two threads and a Lock Hook
\* A resource derived from pool_resource whose grow and allocate call
\* grow_impl<Lock>, grow_alloc<Lock> and allocate_impl<Lock>; Lock is a
\* scoped mutex.  A step is what a thread does between two points where
\* the other thread can run and see a difference.

\* Most live allocations at once in the pool the threads share.
MaxLiveLock == 1

\* Arguments of grow(span), grow(bytes) and allocate(n, a).
SpansLock == { <<2048, 64>>, <<2176, 48>> }
GrowSizesLock == { 80 }
RequestsLock == { <<8, 8>> }

\* An access of thread t to a shared object, and whether t holds the Lock.
Touch(t, object, write) ==
    [thread |-> t, object |-> object, write |-> write, held |-> lock = t]

Goto(t, label) == pc' = [pc EXCEPT ![t] = label]

\* The call of thread t is over: its locals are gone.
Return(t) ==
    /\ Goto(t, "idle")
    /\ local' = [local EXCEPT ![t] = NoLocal]

\* grow_impl<Lock>(ptr): the placement new and the test of root, made
\* before any Lock exists.
GrowImplTest(t, span) ==
    /\ ~ub
    /\ pc[t] = "idle"
    /\ \A g \in given : ~Overlap(g, span)
    /\ given' = given \cup {span}
    /\ local' = [local EXCEPT ![t] = [NoLocal EXCEPT !.p = span[1], !.bytes = span[2]]]
    /\ access' = Touch(t, "root", FALSE)
    /\ Goto(t, IF root # NULL THEN "grow_lock" ELSE "grow_set")
    /\ UNCHANGED <<root, nodes, num_allocs, sizeAt, offAt, allocs, last, ub, pools,
                   asked, pools_data, upstream, lock>>

\* Lock lock { lock_args... } of grow_impl, grow_alloc and allocate_impl.
Acquire(t, from, to) ==
    /\ ~ub
    /\ pc[t] = from
    /\ lock = NoThread
    /\ lock' = t
    /\ Goto(t, to)
    /\ access' = NoAccess
    /\ UNCHANGED <<root, nodes, num_allocs, sizeAt, offAt, allocs, given, last, ub,
                   pools, asked, pools_data, upstream, local>>

\* grow_impl: root = root->insert(n) under the Lock, which the end of the
\* block releases.  With root null by now the call is made on a null pointer.
GrowImplInsert(t) ==
    LET l == local[t]
        g == grow_impl(tree, l.p, l.bytes)
    IN  /\ ~ub
        /\ pc[t] = "grow_insert"
        /\ IF root = NULL
           THEN ub' = TRUE /\ UNCHANGED <<root, nodes>>
           ELSE root' = g.root /\ nodes' = g.nodes /\ UNCHANGED ub
        /\ access' = Touch(t, "tree", TRUE)
        /\ lock' = NoThread
        /\ last' = Call("grow", 0, 0, NULL, FALSE, "none", l.p, l.bytes)
        /\ Return(t)
        /\ UNCHANGED <<num_allocs, sizeAt, offAt, allocs, given, pools, asked,
                       pools_data, upstream>>

\* grow_impl: else root = n, with no Lock.
GrowImplSet(t) ==
    LET l == local[t]
    IN  /\ ~ub
        /\ pc[t] = "grow_set"
        /\ root' = l.p
        /\ nodes' = Place(nodes, l.p, l.bytes)
        /\ access' = Touch(t, "root", TRUE)
        /\ last' = Call("grow", 0, 0, NULL, FALSE, "none", l.p, l.bytes)
        /\ Return(t)
        /\ UNCHANGED <<num_allocs, sizeAt, offAt, allocs, given, ub, pools, asked,
                       pools_data, upstream, lock>>

\* allocate_impl<Lock>(n, a): the sizes are computed, then the Lock is taken.
AllocateImplEnter(t, n, a) ==
    /\ ~ub
    /\ pc[t] = "idle"
    /\ num_allocs < MaxLiveLock
    /\ local' = [local EXCEPT ![t] = [NoLocal EXCEPT !.n = n, !.a = a]]
    /\ Goto(t, "alloc_lock")
    /\ access' = NoAccess
    /\ UNCHANGED <<root, nodes, num_allocs, sizeAt, offAt, allocs, given, last, ub,
                   pools, asked, pools_data, upstream, lock>>

\* allocate_impl: the retry loop and ++num_allocs under the Lock; the end of
\* the block, or the exception of auto_grow, releases it.  The header is
\* written to the chunk taken, which no other thread can reach.
AllocateImplBody(t) ==
    /\ pc[t] = "alloc_body"
    /\ Allocate(local[t].n, local[t].a)
    /\ access' = Touch(t, "tree", TRUE)
    /\ lock' = NoThread
    /\ Return(t)

\* res->allocate(bytes, alignof(pool_node)) with other calls in flight.
upstream_allocate_block(u, ps, bytes) ==
    { x \in upstream_allocate(ps, bytes) :
        \A l \in u.live : ~Overlap(<<x, bytes>>, <<l[1], l[2]>>) }

\* grow_alloc<Lock>(bytes): the block is allocated.
GrowAllocBlock(t, bytes) ==
    LET b      == grow_alloc_bytes(bytes)
        blocks == upstream_allocate_block(upstream, pools, b)
    IN  /\ ~ub
        /\ pc[t] = "idle"
        /\ access' = NoAccess
        /\ IF blocks = {}
           THEN /\ last' = Call("grow", 0, 0, NULL, TRUE, "upstream", NULL, b)
                /\ UNCHANGED <<upstream, local, pc>>
           ELSE \E x \in blocks :
                /\ upstream' = [upstream EXCEPT !.live = @ \cup {<<x, b, AlignofPoolNode>>}]
                /\ local' = [local EXCEPT ![t] = [NoLocal EXCEPT !.p = x, !.bytes = b]]
                /\ Goto(t, "grow_array")
                /\ UNCHANGED last
        /\ UNCHANGED <<root, nodes, num_allocs, sizeAt, offAt, allocs, given, ub, pools,
                       asked, pools_data, lock>>

\* grow_alloc: pools.size() is read and the array for one pool more is
\* allocated, before the Lock is taken; the catch block gives the block back.
GrowAllocArray(t) ==
    LET l     == local[t]
        count == Len(pools) + 1
        ys    == upstream_allocate_array(upstream, SizeofPoolType * count)
        y     == CHOOSE z \in ys : \A w \in ys : z <= w
    IN  /\ ~ub
        /\ pc[t] = "grow_array"
        /\ access' = Touch(t, "pools", FALSE)
        /\ IF ys = {}
           THEN /\ upstream' = [return_block(upstream, <<l.p, l.bytes, AlignofPoolNode>>)
                                    EXCEPT !.freed = << >>]
                /\ last' = Call("grow", 0, 0, NULL, TRUE, "upstream", NULL, l.bytes)
                /\ Return(t)
           ELSE /\ upstream' = [upstream EXCEPT !.live =
                                    @ \cup {<<y, SizeofPoolType * count, AlignofPoolType>>}]
                /\ local' = [local EXCEPT ![t].count = count, ![t].array = y]
                /\ Goto(t, "grow_alloc_lock")
                /\ UNCHANGED last
        /\ UNCHANGED <<root, nodes, num_allocs, sizeAt, offAt, allocs, given, ub, pools,
                       asked, pools_data, lock>>

\* grow_alloc under the Lock: the pools move to the new array, the old
\* array is given back, the new pool is appended and grow_impl puts it in
\* the tree.  An array allocated for fewer pools is written past its end.
GrowAllocCommit(t) ==
    LET l  == local[t]
        g  == grow_impl(tree, l.p, l.bytes)
        u1 == IF pools_data # NULL
              THEN upstream_deallocate(upstream, <<pools_data, SizeofPoolType * Len(pools),
                                                   AlignofPoolType>>)
              ELSE upstream
    IN  /\ ~ub
        /\ pc[t] = "grow_alloc_commit"
        /\ ub' = (Len(pools) + 1 > l.count)
        /\ upstream' = [u1 EXCEPT !.freed = << >>]
        /\ pools' = Append(pools, <<l.p, l.bytes>>)
        /\ pools_data' = l.array
        /\ root' = g.root
        /\ nodes' = g.nodes
        /\ access' = Touch(t, "pools", TRUE)
        /\ lock' = NoThread
        /\ last' = Call("grow", 0, 0, NULL, FALSE, "none", l.p, l.bytes)
        /\ Return(t)
        /\ UNCHANGED <<num_allocs, sizeAt, offAt, allocs, given, asked>>

NextLock ==
    \/ \E t \in Threads, span \in SpansLock : GrowImplTest(t, span) /\ NoQueue
    \/ \E t \in Threads : Acquire(t, "grow_lock", "grow_insert") /\ NoQueue
    \/ \E t \in Threads : GrowImplInsert(t) /\ NoQueue
    \/ \E t \in Threads : GrowImplSet(t) /\ NoQueue
    \/ \E t \in Threads, r \in RequestsLock : AllocateImplEnter(t, r[1], r[2]) /\ NoQueue
    \/ \E t \in Threads : Acquire(t, "alloc_lock", "alloc_body") /\ NoQueue
    \/ \E t \in Threads : AllocateImplBody(t) /\ NoQueue
    \/ \E t \in Threads, bytes \in GrowSizesLock : GrowAllocBlock(t, bytes) /\ NoQueue
    \/ \E t \in Threads : GrowAllocArray(t) /\ NoQueue
    \/ \E t \in Threads : Acquire(t, "grow_alloc_lock", "grow_alloc_commit") /\ NoQueue
    \/ \E t \in Threads : GrowAllocCommit(t) /\ NoQueue

SpecLock == InitArena /\ [][NextLock]_vars

\* ------------------------------------------------------- circular_queue
\* static_circular_queue<T, N> (include/jw/circular_queue.h), used from one
\* context through its producer and consumer interfaces.

\* The elements pushed, and the counts passed to try_append: none, some,
\* more than the queue holds, and near the top of std::size_t.
Values == { "a", "b" }
AppendCounts == { 0, 2, N, SizeMax - 1 }

\* The ranges passed to try_append(first, last): some elements, as many as
\* the queue holds at most, and one more.
AppendRanges ==
    { <<"a", "b">>,
      [k \in 1..(N - 1) |-> IF k % 2 = 1 THEN "b" ELSE "a"],
      [k \in 1..N |-> IF k % 2 = 1 THEN "a" ELSE "b"] }

\* circular_queue_static_storage_base::allocated_size and wrap
allocated_size == N
wrap(i) == i % N

\* A faulty distance: i - h kept as a std::size_t.
distance_unsigned(h, i) == Wrap(i - h)

\* circular_queue_utilities::distance: i - h as a std::ptrdiff_t.
distance(h, i) ==
    LET n == i - h
    IN  IF n >= 0 THEN n ELSE allocated_size + n

\* circular_queue_utilities::add
add(h, i) == wrap(Wrap(h + i))

\* A faulty max_size: every slot counts.
queue_max_size_all == allocated_size

\* empty(), full(), size() and max_size() of circular_queue_common_interface
queue_empty(h, t) == h = t
queue_full(h, t) == h = add(t, 1)
queue_size(h, t) == distance(h, t)
queue_max_size == allocated_size - 1

\* The last call on the queue: ok when it appended or removed.
QueueCall(op, n, ok, threw) == [op |-> op, n |-> n, ok |-> ok, threw |-> threw]

\* The slots do_fill(p, n, value) writes: n, N - p at most, from p on, and
\* the others from slot 0 on.
filled(p, n) ==
    LET max_n == IF n < N - p THEN n ELSE N - p
    IN  { i \in 0..(N - 1) : (p <= i /\ i < p + max_n) \/ i < n - max_n }

\* What try_append constructs from: n copies of a value (fill_n), or the
\* elements of [first, last) in order (copy_n).
Fill(value) == [kind |-> "fill", value |-> value]
Copy(range) == [kind |-> "copy", range |-> range]
element(src, k) == IF src.kind = "fill" THEN src.value ELSE src.range[k + 1]

\* do_fill(p, n, value) and do_copy(p, n, it): the first max_n = min(n, N - p)
\* elements go to get(p) on, the other n - max_n to get(0) on.
constructed(st, p, n, src) ==
    LET max_n == IF n < N - p THEN n ELSE N - p
    IN  [i \in 0..(N - 1) |->
            IF i < n - max_n THEN element(src, max_n + i)
            ELSE IF p <= i /\ i < p + max_n THEN element(src, i - p)
            ELSE st[i]]

\* The result of a successful try_append: iterator { self(), t }.
Appended(op, n, it, src) ==
    [op |-> op, n |-> n, ok |-> TRUE, threw |-> FALSE, it |-> it, src |-> src]

\* do_append(n, func), with func(t) constructing the n elements from slot t
\* on: the check against max_size, the elements, and the tail stored by the
\* finally.  A count above N is written past the storage.
do_append(op, n, src, throws) ==
    LET t == tail
    IN  IF Wrap(distance(head, t) + n) > queue_max_size
        THEN /\ last' = QueueCall(op, n, FALSE, throws)
             /\ UNCHANGED <<head, tail, storage, ub>>
        ELSE /\ storage' = constructed(storage, t, n, src)
             /\ tail' = add(t, n)
             /\ ub' = (n > N)
             /\ last' = Appended(op, n, t, src)
             /\ UNCHANGED head

\* try_push_back(value) and try_emplace_back(value): do_append(1, ...);
\* push_back and emplace_back throw circular_queue_overflow when it fails.
PushBack(op, value) ==
    /\ ~ub
    /\ do_append(op, 1, Fill(value), op \in {"push_back", "emplace_back"})

\* try_append(n, value), and append(n, value), which throws
\* circular_queue_overflow when it fails.
TryAppend(op, n, value) ==
    /\ ~ub
    /\ do_append(op, n, Fill(value), op = "append")

\* try_append(first, last) and append(first, last): n = last - first.
TryAppendRange(op, range) ==
    /\ ~ub
    /\ do_append(op, Len(range), Copy(range), op = "append")

\* do_destroy(p, n) of the static storage, as the number of times each slot
\* is destroyed: min(n, N - p) slots from p on and the others from slot 0 on.
do_destroy(p, n) == [i \in 0..(N - 1) |-> IF i \in filled(p, n) THEN 1 ELSE 0]

\* do_destroy(p, n) of the dynamic storage: get(p), n times.
do_destroy_dynamic(p, n) == [i \in 0..(N - 1) |-> IF i = p THEN n ELSE 0]

\* The last pop_front, with the destructor calls it made.
Popped(n, destroyed) ==
    [op |-> "pop_front", n |-> n, ok |-> TRUE, threw |-> FALSE, destroyed |-> destroyed]

\* pop_front(n): destroy_n(h, n), then the head.  Destroying a slot that
\* holds no element is undefined.
pop_front(n, destroyed) ==
    LET h == head
    IN  /\ storage' = [i \in 0..(N - 1) |-> IF destroyed[i] > 0 THEN Raw ELSE storage[i]]
        /\ ub' = \E i \in 0..(N - 1) :
                    \/ destroyed[i] > 1
                    \/ destroyed[i] = 1 /\ storage[i] = Raw
        /\ head' = add(h, n)
        /\ last' = Popped(n, destroyed)
        /\ UNCHANGED tail

\* pop_front(n) on a static_circular_queue, called with n <= size().
PopFront(n) ==
    /\ ~ub
    /\ n <= queue_size(head, tail)
    /\ pop_front(n, do_destroy(head, n))

\* pop_front(n) on a dynamic_circular_queue, called with n <= size().
PopFrontDynamic(n) ==
    /\ ~ub
    /\ n <= queue_size(head, tail)
    /\ pop_front(n, do_destroy_dynamic(head, n))

\* The elements of the queue, oldest first: begin() to end().
contents(h, t, st) == [k \in 1..distance(h, t) |-> st[add(h, k - 1)]]

\* What a reference the queue returns is bound to: the element in slot i
\* of the storage, or a temporary object of the function that returned it.
Slot(i) == [bound |-> "slot", slot |-> i]
Temporary == [bound |-> "temporary", slot |-> 0]

\* front(): *get(load_head)
front(h) == Slot(h)

\* back(): *get(load_tail - 1), the index computed as a std::size_t and
\* passed to get as it is.
back(t) == Slot(Wrap(t - 1))

\* operator[](i) and at(i): return get(add(load_head, i)), a pointer where
\* the return type is a reference.  The overloads that return reference do
\* not compile; the const overloads compile for a value_type that converts
\* from const_pointer, and the reference is then bound to the temporary
\* the conversion makes.
subscript(h, i) == Temporary

\* find_contiguous_begin(i) and find_contiguous_end(i) for an iterator at
\* position i, with h = load_head and t = load_tail: the slot whose address
\* contiguous_begin(i) and contiguous_end(i) return.
find_contiguous_begin(h, i) == IF i > h THEN h ELSE 0
find_contiguous_end(t, i) == IF i > t THEN allocated_size ELSE t

\* std::bit_ceil(x): the smallest power of two that is not below x.
bit_ceil(x) ==
    LET powers == { 2 ^ k : k \in 0..(SizeBits - 1) }
    IN  CHOOSE p \in powers : p >= x /\ \A q \in powers : q >= x => p <= q

\* The sizes passed to resize: below, at and above the allocated size.
ResizeSizes == { N - 1, N, N + 1, 2 * N }

\* The slots of the block resize writes to, p + h + i for the n elements,
\* and the storage after it as get() sees it through the new ptr.
resized_slots(h, n) == { h + i : i \in 0..(n - 1) }
resized(st, h, n, cap) ==
    [s \in 0..(cap - 1) |->
        IF s \in resized_slots(h, n) THEN st[add(h, s - h)] ELSE Raw]

\* The last resize: what was asked for, whether it allocated, and the
\* slots of the new block it wrote.
Resized(new_size, n, ok, written) ==
    [op |-> "resize", n |-> n, ok |-> ok, threw |-> FALSE, new_size |-> new_size,
     written |-> written]

\* circular_queue_dynamic_storage_base::resize(size), no constructor
\* throwing.  The new block is allocated for n elements, the number stored;
\* element i is moved to p + h + i; ptr is set to the new block before
\* deallocate(alloc, ptr, old_size) runs, so that call frees the new block
\* and the old one stays allocated.  Writing outside the block and
\* deallocating with another size than allocated are undefined.
Resize(new_size) ==
    LET cap == bit_ceil(new_size)
        h   == head
        n   == distance(h, tail)
    IN  /\ ~ub
        /\ dyn.live
        /\ dyn.mask = N - 1
        /\ IF cap <= dyn.mask + 1
           THEN /\ last' = Resized(new_size, n, FALSE, {})
                /\ UNCHANGED <<head, tail, storage, dyn, ub>>
           ELSE /\ storage' = resized(storage, h, n, cap)
                /\ dyn' = [mask |-> cap - 1, slots |-> n, live |-> FALSE,
                           lost |-> dyn.lost + 1]
                /\ tail' = h + n
                /\ last' = Resized(new_size, n, TRUE, resized_slots(h, n))
                /\ ub' = TRUE
                /\ UNCHANGED head

\* The queue is used, not the pool.
QueueOnly == UNCHANGED <<poolVars, lockVars, spscVars, moveVars, dynVars, vecVars>>

NextQueue ==
    \/ \E op \in {"try_push_back", "push_back", "try_emplace_back", "emplace_back"},
          v \in Values : PushBack(op, v) /\ QueueOnly
    \/ \E op \in {"try_append", "append"}, n \in AppendCounts, v \in Values :
          TryAppend(op, n, v) /\ QueueOnly
    \/ \E op \in {"try_append", "append"}, r \in AppendRanges :
          TryAppendRange(op, r) /\ QueueOnly
    \/ \E n \in 0..N : PopFront(n) /\ QueueOnly

SpecQueue == InitPool /\ [][NextQueue]_vars

\* A queue whose element type may throw from its constructors.  The counts
\* passed to try_append, and the element (from 0) whose construction throws.
ThrowCounts == 1..(N - 1)

\* do_append(n, func) when the construction of element k throws.  func is
\* construct for a push and the loop of copy_n or fill_n for an append: the
\* loop has constructed elements 0 to k - 1, its catch block destroys them
\* with destroy_n(p, k) and throws on.  The finally declared before the
\* call of func stores the tail as the exception leaves do_append.
do_append_throw(op, n, k) ==
    LET t == tail
    IN  IF Wrap(distance(head, t) + n) > queue_max_size
        THEN /\ last' = QueueCall(op, n, FALSE, op \in {"push_back", "emplace_back", "append"})
             /\ UNCHANGED <<head, tail, storage, ub>>
        ELSE /\ storage' = [i \in 0..(N - 1) |->
                               IF do_destroy(t, k)[i] > 0 THEN Raw ELSE storage[i]]
             /\ tail' = add(t, n)
             /\ last' = QueueCall(op, n, FALSE, TRUE)
             /\ UNCHANGED <<head, ub>>

\* try_push_back(value), try_emplace_back(args), push_back and emplace_back
\* with a constructor that throws.
PushBackThrow(op) ==
    /\ ~ub
    /\ do_append_throw(op, 1, 0)

\* try_append(n, value), try_append(first, last) and append with a
\* constructor that throws at element k.
TryAppendThrow(op, n, k) ==
    /\ ~ub
    /\ k < n
    /\ do_append_throw(op, n, k)

NextThrow ==
    \/ \E op \in {"try_push_back", "push_back", "try_emplace_back", "emplace_back"},
          v \in Values : PushBack(op, v) /\ QueueOnly
    \/ \E op \in {"try_push_back", "push_back", "try_emplace_back", "emplace_back"} :
          PushBackThrow(op) /\ QueueOnly
    \/ \E op \in {"try_append", "append"}, n \in ThrowCounts, k \in 0..(N - 1) :
          TryAppendThrow(op, n, k) /\ QueueOnly
    \/ \E n \in 0..N : PopFront(n) /\ QueueOnly

SpecThrow == InitPool /\ [][NextThrow]_vars

\* dynamic_circular_queue<T> constructed with N slots: the pushes are those
\* of the static queue, do_construct placing one element.
NextDynamic ==
    \/ \E op \in {"try_push_back", "push_back", "try_emplace_back", "emplace_back"},
          v \in Values : PushBack(op, v) /\ QueueOnly
    \/ \E n \in 0..N : PopFrontDynamic(n) /\ QueueOnly

SpecDynamic == InitPool /\ [][NextDynamic]_vars

\* The dynamic queue is used and resized, not the pool.
ResizeOnly == UNCHANGED <<poolVars, lockVars, spscVars, moveVars, vecVars>>

\* dynamic_circular_queue<T> constructed with N slots: pushes, pops and
\* resize from one context.
NextResize ==
    \/ \E op \in {"try_push_back", "push_back", "try_emplace_back", "emplace_back"},
          v \in Values : dyn.live /\ PushBack(op, v) /\ QueueOnly
    \/ \E n \in 0..N : dyn.live /\ PopFrontDynamic(n) /\ QueueOnly
    \/ \E new_size \in ResizeSizes : Resize(new_size) /\ ResizeOnly

SpecResize == InitPool /\ [][NextResize]_vars

\* ------------------------------------------- one producer, one consumer
\* A static_circular_queue<T, N, queue_sync::thread> shared by a thread
\* that calls try_push_back and a thread that calls empty(), front() and
\* pop_front().  Each step makes one access to memory the other thread
\* may access too.

\* The elements pushed at most, each different from the others.
MaxItems == 6
Item(k) == ToString(k)

Producer == CHOOSE t \in Threads : \A u \in Threads : t <= u
Consumer == CHOOSE t \in Threads : t # Producer

\* head_atomic().load(acquire) and tail_atomic().load(acquire) by the
\* thread that does not own the index: the value of any store(release)
\* from the one it saw last to the latest.  The owner moves the index one
\* slot at a time.
load_acquire(seen, now) == { add(seen, k) : k \in 0..distance(seen, now) }

\* A faulty test for free space: there always is.
can_append_always(h, t, n) == TRUE

\* do_append: distance(load_head, t) + n > max_size() returns nullopt.
can_append(h, t, n) == Wrap(distance(h, t) + n) <= queue_max_size

\* try_push_back(value), do_append(1, ...): load_tail(produce) is the
\* producer's own tail, load_head(produce) an acquire load.  Without
\* space it returns false.
ProducerLoad ==
    /\ pc[Producer] = "idle"
    /\ Len(produced) < MaxItems
    /\ \E h \in load_acquire(reg[Producer].h, head) :
          /\ reg' = [reg EXCEPT ![Producer] =
                        [h |-> h, t |-> tail, v |-> Item(Len(produced) + 1)]]
          /\ pc' = [pc EXCEPT ![Producer] =
                        IF can_append(h, tail, 1) THEN "construct" ELSE "idle"]
    /\ UNCHANGED <<queueVars, produced, consumed, last, ub>>

\* func(t): construct(t, value).  The slot must hold no element.
ProducerConstruct ==
    /\ pc[Producer] = "construct"
    /\ storage' = [storage EXCEPT ![reg[Producer].t] = reg[Producer].v]
    /\ ub' = (ub \/ storage[reg[Producer].t] # Raw)
    /\ pc' = [pc EXCEPT ![Producer] = "store_tail"]
    /\ UNCHANGED <<head, tail, reg, produced, consumed, last>>

\* The finally: store_tail(add(t, 1)), a store(release); true is returned.
ProducerStoreTail ==
    /\ pc[Producer] = "store_tail"
    /\ tail' = add(reg[Producer].t, 1)
    /\ produced' = Append(produced, reg[Producer].v)
    /\ pc' = [pc EXCEPT ![Producer] = "idle"]
    /\ UNCHANGED <<head, storage, reg, consumed, last, ub>>

\* empty(): load_head(consume) is the consumer's own head, load_tail(consume)
\* an acquire load.  The consumer goes on when the queue is not empty.
ConsumerEmpty ==
    /\ pc[Consumer] = "idle"
    /\ \E t \in load_acquire(reg[Consumer].t, tail) :
          /\ reg' = [reg EXCEPT ![Consumer] = [h |-> head, t |-> t, v |-> Raw]]
          /\ pc' = [pc EXCEPT ![Consumer] =
                        IF queue_empty(head, t) THEN "idle" ELSE "front"]
    /\ UNCHANGED <<queueVars, produced, consumed, last, ub>>

\* front(): *get(load_head(consume)).
ConsumerFront ==
    /\ pc[Consumer] = "front"
    /\ reg' = [reg EXCEPT ![Consumer].v = storage[head]]
    /\ pc' = [pc EXCEPT ![Consumer] = "pop_front"]
    /\ UNCHANGED <<queueVars, produced, consumed, last, ub>>

\* pop_front(): destroy_n(h, 1).  The slot must hold an element.
ConsumerDestroy ==
    /\ pc[Consumer] = "pop_front"
    /\ storage' = [storage EXCEPT ![head] = Raw]
    /\ ub' = (ub \/ storage[head] = Raw)
    /\ pc' = [pc EXCEPT ![Consumer] = "store_head"]
    /\ UNCHANGED <<head, tail, reg, produced, consumed, last>>

\* pop_front(): store_head(add(h, 1)), a store(release).
ConsumerStoreHead ==
    /\ pc[Consumer] = "store_head"
    /\ head' = add(head, 1)
    /\ consumed' = Append(consumed, reg[Consumer].v)
    /\ pc' = [pc EXCEPT ![Consumer] = "idle"]
    /\ UNCHANGED <<tail, storage, reg, produced, last, ub>>

\* The queue is used by the two threads, not the pool.
SpscOnly == UNCHANGED <<poolVars, lock, local, access, moveVars, dynVars, vecVars>>

NextSpsc ==
    \/ ProducerLoad /\ SpscOnly
    \/ ProducerConstruct /\ SpscOnly
    \/ ProducerStoreTail /\ SpscOnly
    \/ ConsumerEmpty /\ SpscOnly
    \/ ConsumerFront /\ SpscOnly
    \/ ConsumerDestroy /\ SpscOnly
    \/ ConsumerStoreHead /\ SpscOnly

SpecSpsc == InitPool /\ [][NextSpsc]_vars

\* ----------------------------------------------------------- sso_vector
\* sso_vector<int> (include/jw/sso_vector.h).  Only the sizes are kept:
\* the values of the elements play no part in what is allocated.

\* The largest size() and the largest argument of the calls.
MaxVecSize == 12

min_alloc_size == Max(bit_ceil(sso_size), LeastAlloc)

\* std::has_single_bit(x)
has_single_bit(x) == x \in { 2 ^ k : k \in 0..(SizeBits - 1) }

\* calc_capacity(n)
calc_capacity(n) == Max(bit_ceil(n), min_alloc_size)

\* size() and capacity()
vec_size(v) == v.size
vec_capacity(v) == IF v.sso THEN sso_size ELSE v.capacity

\* The last call on the vector: cap is the capacity it passed to
\* allocate, 0 when it did not allocate.
VecCall(op, n, cap) == [op |-> op, n |-> n, cap |-> cap]

\* The two assertions of allocate(a, cap).
allocate_asserts(cap) == has_single_bit(cap) /\ cap > min_alloc_size

\* allocate(cap), the elements moved or made in the new block, and
\* replace_far({ cap, n, p }).  When an assert of allocate fails the
\* program is ended in a build with assertions, and goes on in a build
\* with NDEBUG.
allocate_far(op, arg, cap, n) ==
    /\ last' = VecCall(op, arg, cap)
    /\ \/ vec' = [sso |-> FALSE, size |-> n, capacity |-> cap, aborted |-> FALSE]
       \/ /\ ~allocate_asserts(cap)
          /\ vec' = [vec EXCEPT !.aborted = TRUE]

\* set_size(n) with the elements made or destroyed in place.
set_size(op, arg, n) ==
    /\ last' = VecCall(op, arg, 0)
    /\ vec' = [vec EXCEPT !.size = n]

\* sso_vector(n, value): init_allocate(n), on a new object.
VecConstruct(n) ==
    /\ ~vec.aborted
    /\ IF n <= sso_size
       THEN /\ vec' = [sso |-> TRUE, size |-> n, capacity |-> sso_size, aborted |-> FALSE]
            /\ last' = VecCall("construct", n, 0)
       ELSE allocate_far("construct", n, calc_capacity(n + n \div 2), n)
    /\ UNCHANGED ub

\* reserve(cap)
VecReserve(cap) ==
    /\ ~vec.aborted
    /\ IF cap <= vec_capacity(vec)
       THEN set_size("reserve", cap, vec_size(vec))
       ELSE allocate_far("reserve", cap, calc_capacity(cap), vec_size(vec))
    /\ UNCHANGED ub

\* assign(n, value)
VecAssign(n) ==
    /\ ~vec.aborted
    /\ IF n > vec_capacity(vec)
       THEN allocate_far("assign", n, calc_capacity(n + n \div 2), n)
       ELSE set_size("assign", n, n)
    /\ UNCHANGED ub

\* do_resize(n): reserve(n + n / 2) when n is above capacity(), whose test
\* cap <= capacity() is then false, and set_size(n).
do_resize(op, n) ==
    IF n > vec_size(vec) /\ n > vec_capacity(vec)
    THEN allocate_far(op, n, calc_capacity(n + n \div 2), n)
    ELSE set_size(op, n, n)

\* resize(n) and resize(n, value)
VecResize(n) ==
    /\ ~vec.aborted
    /\ do_resize("resize", n)
    /\ UNCHANGED ub

\* emplace_back(args) and push_back(value): do_resize(size() + 1)
VecEmplaceBack ==
    /\ ~vec.aborted
    /\ vec_size(vec) < MaxVecSize
    /\ do_resize("emplace_back", vec_size(vec) + 1)
    /\ UNCHANGED ub

\* insert(pos, n, value) -> make_gap(i, n), for any position
VecInsert(n) ==
    LET new_size == vec_size(vec) + n
    IN  /\ ~vec.aborted
        /\ new_size <= MaxVecSize
        /\ IF new_size > vec_capacity(vec)
           THEN allocate_far("insert", n, calc_capacity(new_size + new_size \div 2), new_size)
           ELSE set_size("insert", n, new_size)
        /\ UNCHANGED ub

\* shrink_to_fit()
VecShrinkToFit ==
    LET n   == vec.size
        cap == calc_capacity(n)
    IN  /\ ~vec.aborted
        /\ IF vec.sso THEN set_size("shrink_to_fit", 0, n)
           ELSE IF n <= sso_size
           THEN /\ vec' = [sso |-> TRUE, size |-> n, capacity |-> sso_size,
                           aborted |-> FALSE]
                /\ last' = VecCall("shrink_to_fit", 0, 0)
           ELSE IF cap >= vec.capacity THEN set_size("shrink_to_fit", 0, n)
           ELSE allocate_far("shrink_to_fit", 0, cap, n)
        /\ UNCHANGED ub

\* The vector is used, nothing else.
VecOnly == UNCHANGED <<poolVars, lockVars, queueVars, spscVars, moveVars, dynVars>>

NextVec ==
    \/ \E n \in 0..MaxVecSize : VecConstruct(n) /\ VecOnly
    \/ \E cap \in 0..MaxVecSize : VecReserve(cap) /\ VecOnly
    \/ \E n \in 0..MaxVecSize : VecAssign(n) /\ VecOnly
    \/ \E n \in 0..MaxVecSize : VecResize(n) /\ VecOnly
    \/ VecEmplaceBack /\ VecOnly
    \/ \E n \in 1..MaxVecSize : VecInsert(n) /\ VecOnly
    \/ VecShrinkToFit /\ VecOnly

SpecVec == InitPool /\ [][NextVec]_vars

\* ------------------------------------------------------------ tree shape
Chunks == DOMAIN nodes

RECURSIVE Reach(_, _)
Reach(h, x) ==
    IF x = NULL THEN {} ELSE {x} \cup Reach(h, h[x].next[1]) \cup Reach(h, h[x].next[2])

\* The free chunks of a tree, as <<address, bytes>>.
ChunkSet(t) == { <<x, t.nodes[x].size>> : x \in Reach(t.nodes, t.root) }

\* ----------------------------------------------------------------- claims

\* C1: no two chunks in the free tree are physically contiguous: there are
\* no chunks A and B in the tree with A.begin + A.size = B.begin.
C1_NonAdjacent ==
    \A x, y \in Reach(nodes, root) : x + nodes[x].size # y

\* C2: every chunk in the free tree is at least as large as each of its
\* children next[0] and next[1].
C2_HeapBySize ==
    \A x \in Reach(nodes, root) : \A i \in 1..2 :
        nodes[x].next[i] # NULL => nodes[nodes[x].next[i]].size <= nodes[x].size

\* A split whose remainder is smaller than a child of the old root has
\* just been put back into a tree of at least three chunks.
C2_Witness ==
    /\ last.op = "allocate"
    /\ last.branch \in {"split_lo", "split_hi"}
    /\ Cardinality(Reach(nodes, root)) >= 3
    /\ root # NULL
    /\ \E x \in Reach(nodes, root) :
          /\ x # root
          /\ x <= last.p + last.bytes
          /\ last.p <= x + nodes[x].size

\* C3: in a pool over one span of S bytes, whenever a sequence of allocate
\* and deallocate calls has left no allocation outstanding, max_chunk_size()
\* is S: the tree is one chunk covering the span.
C3_RoundTrip ==
    num_allocs = 0 => max_chunk_size(tree) = OneSpan[2]

\* C4: the pointer a successful allocate(n, a) returns is a multiple of a,
\* whichever branch served the request.
C4_Alignment ==
    (last.op = "allocate" /\ ~last.threw) => last.ret % last.a = 0

\* An allocation with an alignment above that of a chunk start, served by
\* the high-end split, whose header had to be padded.
C4_Witness ==
    /\ last.op = "allocate"
    /\ ~last.threw
    /\ last.a > AlignofPoolNode
    /\ last.branch = "split_hi"
    /\ last.ret - last.p > SizeofSizeT + SizeofUint8

\* C5: for every allocation made by an allocate that stayed inside its
\* chunk, the byte before the returned pointer holds (returned pointer -
\* chunk start) untruncated, and the word at the address deallocate derives
\* from it holds the size of the chunk allocate took from the tree.
C5_HeaderRoundTrip ==
    ~ub => \A ptr \in DOMAIN allocs :
              /\ offAt[ptr - 1] = ptr - allocs[ptr].p
              /\ (ptr - offAt[ptr - 1]) \in DOMAIN sizeAt
              /\ sizeAt[ptr - offAt[ptr - 1]] = allocs[ptr].bytes

\* C6: allocate(n, a) on a pool whose tree is empty or whose largest chunk
\* is smaller than the size the request needs throws std::bad_alloc and
\* leaves root, the chunks and their links, and num_allocs as they were.
C6_ExhaustionBarePool ==
    [][ ( /\ last'.op = "allocate"
          /\ last' # last
          /\ \/ root = NULL
             \/ max_chunk_size(tree) < needed_size(last'.n, last'.a) )
        => ( /\ last'.threw
             /\ UNCHANGED <<root, nodes, num_allocs>> ) ]_vars

\* C7: an allocate on the arena that had to ask upstream, and whose first
\* upstream allocation succeeded, asked exactly once, for at least n plus
\* the overhead a + sizeof(size_t) + 1, and then returned a pointer.
C7_ExhaustionArena ==
    (last.op = "allocate" /\ asked # << >> /\ asked[1].ok) =>
        /\ Len(asked) = 1
        /\ asked[1].bytes >= last.n + last.a + SizeofSizeT + SizeofUint8
        /\ ~last.threw

\* The tree is one free chunk and max_size(a) is not 0.
OneChunk(a) ==
    /\ root # NULL
    /\ DOMAIN nodes = {root}
    /\ max_size(tree, a) > 0

\* max_chunk_size() after deallocate of the pointer the step returned.
AfterFree ==
    LET p == last'.ret - offAt'[last'.ret - 1]
    IN  max_chunk_size(grow_impl(Tree(root', nodes'), p, sizeAt'[p]))

\* The step is an allocate(n, a) that split the only chunk of the tree.
SplitsOneChunk ==
    /\ last'.op = "allocate"
    /\ last'.branch \in {"split_lo", "split_hi"}
    /\ OneChunk(last'.a)
    /\ asked' = << >>

FreeOrders ==
    LET k == Cardinality(DOMAIN allocs)
    IN  { f \in [1..k -> DOMAIN allocs] : \A i, j \in 1..k : f[i] = f[j] => i = j }

\* The tree after do_deallocate of the pointers of ps, one after the other.
RECURSIVE FreeAll(_, _)
FreeAll(t, ps) ==
    IF ps = << >> THEN t
    ELSE LET p == Head(ps) - offAt[Head(ps) - 1]
         IN  FreeAll(grow_impl(t, p, sizeAt[p]), Tail(ps))

\* C9: whatever allocations are live in a pool over one span, freeing them
\* in any order leaves the same set of free chunks.
C9_FreeOrderCommutes ==
    \A f, g \in FreeOrders : ChunkSet(FreeAll(tree, f)) = ChunkSet(FreeAll(tree, g))

\* Spans of caller memory for two grows in a row: those of Spans and the
\* gaps between them.
ProbeSpans ==
    Spans \cup { <<1088, 64>>, <<1240, 40>>, <<1416, 40>>, <<1456, 80>>, <<1584, 40>> }

\* Two of them, the second directly after the first.
ContiguousPairs == { pr \in ProbeSpans \X ProbeSpans : pr[1][1] + pr[1][2] = pr[2][1] }

CanGrow(span) == \A g \in given : ~Overlap(g, span)

\* C10: grow with a span and then grow with a span physically contiguous
\* with it (directly before or directly after) puts the two spans inside one
\* chunk, and the tree then has as many nodes as after a single grow with one
\* span of the summed size, whatever other chunks the tree holds.
C10_CoalescingOnGrow ==
    \A pr \in ContiguousPairs :
        (CanGrow(pr[1]) /\ CanGrow(pr[2])) =>
            LET lo     == pr[1]
                hi     == pr[2]
                one    == grow_impl(tree, lo[1], lo[2] + hi[2])
                after  == grow_impl(grow_impl(tree, lo[1], lo[2]), hi[1], hi[2])
                before == grow_impl(grow_impl(tree, hi[1], hi[2]), lo[1], lo[2])
            IN  /\ Cardinality(ChunkSet(after)) = Cardinality(ChunkSet(one))
                /\ Cardinality(ChunkSet(before)) = Cardinality(ChunkSet(one))
                /\ \E c \in ChunkSet(after) :
                      c[1] <= lo[1] /\ hi[1] + hi[2] <= c[1] + c[2]
                /\ \E c \in ChunkSet(before) :
                      c[1] <= lo[1] /\ hi[1] + hi[2] <= c[1] + c[2]

\* C11: max_chunk_size() is the size of the largest chunk in the tree, and 0
\* when the tree holds no chunk.
C11_LargestChunk ==
    IF root = NULL
    THEN max_chunk_size(tree) = 0 /\ Chunks = {}
    ELSE /\ \A x \in Reach(nodes, root) : nodes[x].size <= max_chunk_size(tree)
         /\ \E x \in Reach(nodes, root) : nodes[x].size = max_chunk_size(tree)

\* A high-end split has just shrunk the root of a tree of three chunks or
\* more below one of its children, and another chunk is the root now.
C11_Witness ==
    /\ last.op = "allocate"
    /\ last.branch = "split_hi"
    /\ Cardinality(Reach(nodes, root)) >= 3
    /\ root + nodes[root].size # last.p
    /\ \E x \in Reach(nodes, root) : x + nodes[x].size = last.p

\* C12: when max_size(a) returns m > 0, allocate(m, a) is served from the
\* tree as it is: on a basic_pool_resource it does not throw std::bad_alloc.
C12_MaxSizeSatisfiable ==
    [][ ( /\ last'.op = "allocate"
          /\ last' # last
          /\ max_size(tree, last'.a) > 0
          /\ last'.n = max_size(tree, last'.a) )
        => ~last'.threw ]_vars

\* C13: allocate(m, a) with m > max_size(a) is not served from the tree as
\* it is: on a basic_pool_resource it throws std::bad_alloc.
C13_MaxSizeMaximal ==
    [][ ( /\ last'.op = "allocate"
          /\ last' # last
          /\ last'.n > max_size(tree, last'.a) )
        => last'.threw ]_vars

\* C14: size(p) of the pointer allocate(n, a) has just returned is n.
C14_SizeIsRequested ==
    (last.op = "allocate" /\ ~last.threw) => size(sizeAt, offAt, last.ret) = last.n

\* What the arena owns upstream: a block for every pool, and the array.
Owned(ps, pd) ==
    { <<ps[i][1], ps[i][2], AlignofPoolNode>> : i \in 1..Len(ps) }
    \cup (IF pd # NULL THEN { <<pd, SizeofPoolType * Len(ps), AlignofPoolType>> } ELSE {})

\* The growths of the call that returned.
Grown(log) == { i \in 1..Len(log) : log[i].ok }

\* C15: a grow(bytes), or an allocate that grew, in which an upstream
\* allocation threw, throws; what the upstream resource has outstanding is
\* what the arena owns, a block obtained in the failed growth having been
\* given back; and when no growth of the call succeeded before, the pools,
\* the tree and num_allocs are as before the call.
C15_GrowAllOrNothing ==
    [][ ( /\ last'.op \in {"grow", "allocate"}
          /\ asked' # << >>
          /\ ~asked'[Len(asked')].ok )
        => ( /\ last'.threw
             /\ ~upstream'.bad
             /\ upstream'.live = Owned(pools', pools_data')
             /\ Len(pools') = Len(pools) + Cardinality(Grown(asked'))
             /\ num_allocs' = num_allocs
             /\ Grown(asked') = {} =>
                   /\ UNCHANGED <<root, nodes, pools, pools_data, num_allocs>>
                   /\ upstream'.live = upstream.live ) ]_vars

\* The array allocation of a growth has just thrown in an arena of two
\* pools: the block obtained before it went back upstream.
C15_Witness ==
    /\ last.op \in {"grow", "allocate"}
    /\ last.threw
    /\ Len(pools) = 2
    /\ Len(upstream.freed) = 1
    /\ upstream.freed[1][3] = AlignofPoolNode
    /\ upstream.freed[1] \notin upstream.live

\* The deallocate calls of a sequence, as a set.
Range(q) == { q[i] : i \in 1..Len(q) }

\* C16: release() gives back to the upstream resource every pool and the
\* array of pools, each once and with the size and alignment it was
\* allocated with, and leaves no pool and no chunk; a release() of an
\* arena without pools makes no upstream call.
C16_Release ==
    [][ last'.op = "release"
        => ( /\ Range(upstream'.freed) = upstream.live
             /\ Len(upstream'.freed) = Cardinality(upstream.live)
             /\ upstream.live = Owned(pools, pools_data)
             /\ upstream'.live = {}
             /\ ~upstream'.bad
             /\ pools' = << >>
             /\ pools_size(pools') = 0
             /\ max_chunk_size(Tree(root', nodes')) = 0
             /\ (last.op = "release" => upstream'.freed = << >>) ) ]_vars

\* release() has just given back two pools and the array, after a growth
\* in which the upstream resource threw.
C16_Witness ==
    /\ last.op = "release"
    /\ Len(upstream.freed) = 3
    /\ upstream.live = {}
    /\ \E i \in 1..3 : upstream.freed[i][2] = SizeofPoolType * 2

\* C17: every growth made inside allocate(n, a) asks the upstream resource
\* for max(2 * needed, size() / 2) bytes, needed being n plus the alignment
\* and header overhead and at least the minimum chunk size, and the pools
\* it obtained are the last of the span of pools, with that size.
C17_GrowthPolicy ==
    last.op = "allocate" =>
        LET needed == Max(last.n + adjusted_align(last.a) + SizeofSizeT + SizeofUint8,
                          SizeofPoolNode + AlignofPoolNode)
            grown  == Cardinality(Grown(asked))
        IN  /\ \A i \in 1..Len(asked) :
                  asked[i].bytes = Max(2 * needed, asked[i].size \div 2)
            /\ grown <= Len(pools)
            /\ \A i \in Grown(asked) : pools[Len(pools) - grown + i][2] = asked[i].bytes

\* C18: every read and write of root, of the tree and of pools made by
\* grow_impl, grow_alloc and allocate_impl is made by a thread that holds
\* the Lock, and a thread that is not inside a call does not hold it.
C18_LockBracketing ==
    /\ access.object # "none" => access.held
    /\ \A t \in Threads : pc[t] = "idle" => lock # t

\* C19: size() is at most max_size(), which is the allocated size less one;
\* full() holds exactly when size() is max_size() and empty() exactly when
\* size() is 0, so full and empty never hold together.
C19_QueueCapacity ==
    /\ queue_size(head, tail) <= queue_max_size
    /\ queue_max_size = allocated_size - 1
    /\ queue_full(head, tail) <=> queue_size(head, tail) = queue_max_size
    /\ queue_empty(head, tail) <=> queue_size(head, tail) = 0
    /\ ~(queue_full(head, tail) /\ queue_empty(head, tail))

\* A full queue whose elements wrap around the end of the storage.
C19_Witness ==
    /\ queue_full(head, tail)
    /\ tail < head
    /\ last.op \in {"try_push_back", "try_append", "append"}
    /\ last.ok
    /\ \A i \in 0..(N - 1) : i # tail => storage[i] \in Values

\* C20: a push on a full queue fails: try_push_back and try_emplace_back
\* return false or an empty optional, push_back and emplace_back throw, and
\* head, tail and the slots are as before.
C20_PushOnFull ==
    [][ ( /\ queue_full(head, tail)
          /\ last' # last
          /\ last'.op \in {"try_push_back", "push_back", "try_emplace_back", "emplace_back"} )
        => ( /\ ~last'.ok
             /\ last'.threw <=> last'.op \in {"push_back", "emplace_back"}
             /\ UNCHANGED <<head, tail, storage>> ) ]_vars

\* push_back has just thrown on a full queue whose elements wrap around.
C20_Witness ==
    /\ last.op = "push_back"
    /\ last.threw
    /\ queue_full(head, tail)
    /\ tail < head
    /\ tail # 0

\* C21: try_append and append of n elements when size() + n > max_size()
\* fail (an empty optional, or circular_queue_overflow thrown) and add
\* nothing; otherwise exactly the n elements are appended at the back in
\* their order, the elements already there stay, and the iterator returned
\* is at the first element appended.
C21_AppendAllOrNothing ==
    [][ ( /\ last'.op \in {"try_append", "append"}
          /\ <<last, head, tail, storage>>' # <<last, head, tail, storage>> )
        => LET n == last'.n
           IN  IF queue_size(head, tail) + n > queue_max_size
               THEN /\ ~last'.ok
                    /\ last'.threw <=> last'.op = "append"
                    /\ UNCHANGED <<head, tail, storage>>
               ELSE /\ last'.ok
                    /\ ~ub'
                    /\ head' = head
                    /\ contents(head', tail', storage')
                         = contents(head, tail, storage)
                             \o [k \in 1..n |-> element(last'.src, k - 1)]
                    /\ last'.it = tail
                    /\ n > 0 => storage'[last'.it] = element(last'.src, 0) ]_vars

\* C22: pop_front(n) with n <= size() destroys each of the n oldest
\* elements exactly once and no other, with either storage; the elements
\* that remain, their order and the tail are as before, and size() is n less.
C22_PopFront ==
    [][ ( /\ last'.op = "pop_front"
          /\ <<last, head, tail, storage>>' # <<last, head, tail, storage>> )
        => LET n == last'.n
               old == contents(head, tail, storage)
               removed == { add(head, k) : k \in 0..(n - 1) }
           IN  /\ \A i \in 0..(N - 1) :
                    last'.destroyed[i] = IF i \in removed THEN 1 ELSE 0
               /\ ~ub'
               /\ contents(head', tail', storage') = SubSeq(old, n + 1, Len(old))
               /\ tail' = tail
               /\ queue_size(head', tail') = queue_size(head, tail) - n ]_vars

\* C23: with one producer and one consumer in queue_sync::thread mode the
\* elements consumed are, in order, the first of the elements produced;
\* the consumer reads no slot before its element is constructed, and the
\* producer constructs into no slot that still holds an element.
C23_SingleProducerConsumer ==
    /\ Len(consumed) <= Len(produced)
    /\ consumed = SubSeq(produced, 1, Len(consumed))
    /\ pc[Consumer] \in {"pop_front", "store_head"} => reg[Consumer].v # Raw
    /\ ~ub

\* The storage has been gone around, and the producer has constructed an
\* element it has yet to publish while the consumer holds the element
\* it is about to remove.
C23_Witness ==
    /\ Len(consumed) >= N - 1
    /\ pc[Producer] = "store_tail"
    /\ reg[Producer].t < head
    /\ pc[Consumer] = "pop_front"
    /\ reg[Consumer].v = Item(Len(consumed) + 1)

\* The bytes of a chunk or span <<address, bytes>>.
Bytes(c) == c[1]..(c[1] + c[2] - 1)

\* The chunks taken for the live allocations, as <<address, bytes>>.
LiveChunks == { <<allocs[ptr].p, allocs[ptr].bytes>> : ptr \in DOMAIN allocs }

\* The chunks met walking the tree from x, each as often as it is linked.
RECURSIVE Walk(_, _)
Walk(h, x) ==
    IF x = NULL THEN << >>
    ELSE <<x>> \o Walk(h, h[x].next[1]) \o Walk(h, h[x].next[2])

\* C24: the free chunks of the tree and the chunks of the live allocations
\* are pairwise disjoint and cover exactly the bytes of the spans given
\* to grow; every free chunk is reached from the root exactly once.
C24_Conservation ==
    LET free == ChunkSet(tree)
        all  == free \cup LiveChunks
    IN  /\ \A c, d \in all : c # d => Bytes(c) \cap Bytes(d) = {}
        /\ free \cap LiveChunks = {}
        /\ Cardinality(LiveChunks) = Cardinality(DOMAIN allocs)
        /\ UNION { Bytes(c) : c \in all } = UNION { Bytes(g) : g \in given }
        /\ Len(Walk(nodes, root)) = Cardinality(Reach(nodes, root))
        /\ DOMAIN nodes = Reach(nodes, root)

\* The ranges [b1, e1) and [b2, e2) share no byte.
Apart(b1, e1, b2, e2) == e1 <= b2 \/ e2 <= b1

\* C25: the n bytes at the pointer a successful allocate(n, a) returns lie
\* inside the chunk taken from the tree for it, at least
\* sizeof(std::size_t) + 1 bytes after its start, and share no byte with a
\* free chunk or with the chunk of another live allocation.
C25_PayloadContained ==
    (last.op = "allocate" /\ ~last.threw /\ last.branch # "fault")
    => LET b == last.ret
           e == last.ret + last.n
       IN  /\ last.p + SizeofSizeT + SizeofUint8 <= b
           /\ e <= last.p + last.bytes
           /\ \A c \in ChunkSet(tree) : Apart(b, e, c[1], c[1] + c[2])
           /\ \A ptr \in DOMAIN allocs \ {last.ret} :
                 Apart(b, e, allocs[ptr].p, allocs[ptr].p + allocs[ptr].bytes)

\* C26: the tree is ordered by address as a whole: every chunk below
\* next[0] of a chunk starts at a lower address than the chunk, and every
\* chunk below next[1] at a higher one.
C26_AddressOrder ==
    \A x \in Reach(nodes, root) :
        /\ \A y \in Reach(nodes, nodes[x].next[1]) : y < x
        /\ \A y \in Reach(nodes, nodes[x].next[2]) : y > x

\* C27: the next[0] child of every chunk in the tree, if present, starts at
\* a lower address than the chunk, and its next[1] child at a higher one.
C27_LocalPartition ==
    \A x \in Reach(nodes, root) :
        /\ nodes[x].next[1] # NULL => nodes[x].next[1] < x
        /\ nodes[x].next[2] # NULL => nodes[x].next[2] > x

\* The size a request for n bytes aligned to a requires of a chunk: the
\* payload and the overhead, at least one pool_node and its alignment.
RequiredSize(n, a) ==
    Max(n + adjusted_align(a) + SizeofSizeT + SizeofUint8,
        SizeofPoolNode + AlignofPoolNode)

\* C28: allocate(n, a) calls auto_grow (which throws in the bare pool and
\* asks upstream in the arena) only when no chunk in the tree has the
\* required size; when some chunk has, the call returns a pointer taken
\* from the tree without growing.
C28_GrowOnlyWhenNeeded ==
    [][ ( /\ last'.op = "allocate"
          /\ <<last, allocs, asked>>' # <<last, allocs, asked>> )
        => LET fits == \E c \in ChunkSet(tree) :
                          c[2] >= RequiredSize(last'.n, last'.a)
               grew == last'.threw \/ asked' # << >>
           IN  /\ grew => ~fits
               /\ fits => /\ ~grew
                          /\ last'.ret # NULL
                          /\ last'.ret \in DOMAIN allocs' ]_vars

\* The arena held chunks, all too small for the request: it asked
\* upstream for one block and served the request from it, and the smaller
\* chunks are still in the tree.
C28_Witness ==
    /\ last.op = "allocate"
    /\ ~last.threw
    /\ last.n < SizeMax \div 2
    /\ Len(asked) = 1
    /\ asked[1].size > 0
    /\ asked[1].bytes >= RequiredSize(last.n, last.a)
    /\ last.ret \in DOMAIN allocs
    /\ Cardinality(Reach(nodes, root)) >= 2

\* Heap by size in the tree below r of the node store h.
HeapBySize(h, r) ==
    \A x \in Reach(h, r) : \A i \in 1..2 :
        h[x].next[i] # NULL => h[h[x].next[i]].size <= h[x].size

\* Every chunk below r is linked once.
LinkedOnce(h, r) == Len(Walk(h, r)) = Cardinality(Reach(h, r))

\* combine of the two subtrees of a chunk of the tree holds the chunks of
\* both, each once and with its size, in heap order.
CombineKeeps(x) ==
    LET a == nodes[x].next[1]
        b == nodes[x].next[2]
        r == combine(nodes, a, b)
    IN  (a # NULL /\ b # NULL)
        => /\ Reach(r.h, r.r) = Reach(nodes, a) \cup Reach(nodes, b)
           /\ \A y \in Reach(r.h, r.r) : r.h[y].size = nodes[y].size
           /\ LinkedOnce(r.h, r.r)
           /\ HeapBySize(r.h, r.r)

\* C29: the tree operations keep the chunks: combine(a, b) returns the
\* chunks of a and of b; erase() the root's descendants; replace(node) the
\* root's descendants and node; resize(s) the same chunks with the root's
\* size s; every chunk is linked once, none is dropped, and heap by size
\* holds of the result when it held before.
C29_TreeOpsKeepChunks ==
    [][ /\ \A x \in Reach(nodes, root) : CombineKeeps(x)
        /\ ( /\ last'.op = "allocate"
             /\ ~last'.threw
             /\ <<last, allocs>>' # <<last, allocs>> )
           => LET before == Reach(nodes, root)
                  after  == Reach(nodes', root')
                  others == before \ {root}
                  rest   == nodes[root].size - last'.bytes
                  q      == last'.p + last'.bytes
              IN  /\ last'.branch = "whole" => after = others
                  /\ last'.branch = "split_lo"
                       => after = others \cup {q} /\ nodes'[q].size = rest
                  /\ last'.branch = "split_hi"
                       => after = before /\ nodes'[root].size = rest
                  /\ \A y \in others : nodes'[y].size = nodes[y].size
                  /\ LinkedOnce(nodes', root')
                  /\ HeapBySize(nodes, root) => HeapBySize(nodes', root') ]_vars

\* resize() has shrunk the root below one of its two children and put it
\* back through combine: the chunk allocated from is no longer the root.
C29_Witness ==
    /\ last.op = "allocate"
    /\ last.branch = "split_hi"
    /\ Cardinality(Reach(nodes, root)) >= 3
    /\ \E x \in Reach(nodes, root) :
          /\ x + nodes[x].size = last.p
          /\ x # root
          /\ nodes[root].next[1] # NULL
          /\ nodes[root].next[2] # NULL

\* C30: every chunk in the tree and every chunk taken for a live
\* allocation has at least sizeof(pool_node) bytes and starts at an
\* address aligned for pool_node.
C30_MinimumChunk ==
    \A c \in ChunkSet(tree) \cup LiveChunks :
        /\ c[2] >= SizeofPoolNode
        /\ c[1] % AlignofPoolNode = 0

\* C31: split direction alternates.  When allocate splits the root chunk
\* from its low end the remainder left in the tree is marked alloc_hi, so
\* that its next split takes from the high end; when it splits from the
\* high end the remainder is marked for the low end; this holds whether or
\* not the remainder is the root of the tree after the split.
SplitLow == num_allocs' = num_allocs + 1 /\ ~ub' /\ last'.branch = "split_lo"
SplitHigh == num_allocs' = num_allocs + 1 /\ ~ub' /\ last'.branch = "split_hi"
C31_SplitAlternates ==
    [][/\ SplitLow => nodes'[last'.p + last'.bytes].alloc_hi
       /\ SplitHigh => ~nodes'[root].alloc_hi]_vars

\* C32: no chunk is lost under a Lock that gives mutual exclusion.  Once the
\* calls two threads made to grow and allocate on the same pool have all
\* returned, the free chunks of the tree and the chunks of the live
\* allocations cover every byte of the spans and pools handed to the pool,
\* as they do after the same calls made one after the other.
C32_NoLostChunk ==
    ((\A t \in Threads : pc[t] = "idle") /\ ~ub) =>
        UNION { Bytes(c) : c \in ChunkSet(tree) \cup LiveChunks }
            = UNION { Bytes(g) : g \in given \cup { pools[i] : i \in DOMAIN pools } }

\* C33: move construction of the arena transfers ownership completely.  The
\* new pool_resource holds the tree, the pools and the upstream resource of
\* the one it was constructed from, which is left empty and makes no call
\* upstream when it is destroyed.
C33_MoveTransfersOwnership ==
    [][/\ (source'.alive /\ ~source.alive) =>
              /\ <<root, nodes, num_allocs, pools, pools_data>>'
                     = <<root, nodes, num_allocs, pools, pools_data>>
              /\ res' = res
              /\ source'.root = NULL
              /\ source'.num_allocs = 0
              /\ source'.pools = << >>
              /\ source'.pools_data = NULL
       /\ (source.alive /\ ~source'.alive) => upstream'.freed = << >>]_vars

\* C34: the queue is first in, first out.  Every successful push or append
\* adds its elements behind the ones stored, in the order given; pop_front
\* removes the oldest; a failed call changes nothing; front() is the oldest
\* element stored and operator[](i) the i-th oldest, wherever head and
\* tail are in the storage.
C34_Fifo ==
    [][(<<last, head, tail, storage>>' # <<last, head, tail, storage>>) =>
          LET old == contents(head, tail, storage)
              new == contents(head', tail', storage')
          IN  /\ last'.op = "pop_front" => new = SubSeq(old, last'.n + 1, Len(old))
              /\ (last'.op # "pop_front" /\ last'.ok) =>
                     new = old \o [k \in 1..last'.n |-> element(last'.src, k - 1)]
              /\ ~last'.ok => new = old
              /\ new # << >> => front(head') = Slot(add(head', 0))
              /\ \A i \in 0..(Len(new) - 1) : subscript(head', i) = Slot(add(head', i))]_vars

\* C35: for every non-empty queue back() refers to the element appended
\* last, the one in the slot size() - 1 places after head, for every
\* position of tail, position 0 after a wrap-around included.
C35_Back ==
    (~ub /\ ~queue_empty(head, tail)) =>
        back(tail) = Slot(add(head, queue_size(head, tail) - 1))

\* C36: when the construction of an element throws inside try_push_back,
\* try_emplace_back or try_append, the tail is not advanced and size() is
\* unchanged, so no slot between head and tail is without a constructed
\* element.
C36_ExceptionSafety ==
    [][(last'.threw /\ <<last, head, tail, storage>>' # <<last, head, tail, storage>>) =>
          /\ tail' = tail
          /\ queue_size(head', tail') = queue_size(head, tail)
          /\ \A k \in 1..queue_size(head', tail') :
                contents(head', tail', storage')[k] # Raw]_vars

\* The slots of the elements from begin() up to the one k places after it,
\* and from that one up to end().
UpTo(k) == { add(head, j) : j \in 0..k }
From(k) == { add(head, j) : j \in k..(queue_size(head, tail) - 1) }

\* C37: for an iterator i to an element of the queue contiguous_begin(i) is
\* the lowest slot p such that the slots p to i hold only elements
\* from begin() to i, the slot of i itself when i is begin(), and
\* contiguous_end(i) is the highest p such that the slots i to p - 1 hold
\* only elements from i to end().
C37_ContiguousRanges ==
    ~ub => \A k \in 0..(queue_size(head, tail) - 1) :
        LET i  == add(head, k)
            pb == find_contiguous_begin(head, i)
            pe == find_contiguous_end(tail, i)
        IN  /\ pb <= i
            /\ pb..i \subseteq UpTo(k)
            /\ pb > 0 => (pb - 1) \notin UpTo(k)
            /\ k = 0 => pb = i
            /\ i < pe /\ pe <= allocated_size
            /\ i..(pe - 1) \subseteq From(k)
            /\ pe < allocated_size => pe \notin From(k)

\* C38: after resize(new_size) on a dynamically allocated queue the block
\* at ptr is allocated, holds at least new_size slots and as many as
\* allocated_size() reports, every element written lies inside it, and the
\* queue holds the same elements in the same order, so size() is unchanged;
\* resize to a size not above the current allocation changes nothing.
C38_Resize ==
    [][(last'.op = "resize" /\ <<last, tail, storage, dyn>>' # <<last, tail, storage, dyn>>) =>
          IF last'.new_size <= dyn.mask + 1
          THEN UNCHANGED <<head, tail, storage, dyn>>
          ELSE /\ dyn'.live
               /\ dyn'.lost = 0
               /\ dyn'.slots >= last'.new_size
               /\ dyn'.slots = dyn'.mask + 1
               /\ \A s \in last'.written : s < dyn'.slots
               /\ (tail' - head') % (dyn'.mask + 1) = queue_size(head, tail)
               /\ \A k \in 1..queue_size(head, tail) :
                     storage'[(head' + k - 1) % (dyn'.mask + 1)]
                         = contents(head, tail, storage)[k]]_vars

\* C39: every heap allocation an sso_vector makes, in any sequence of
\* construct, reserve, assign, insert, emplace_back, resize and
\* shrink_to_fit, satisfies the assertions of allocate(): the capacity
\* asked for is a power of two and strictly above min_alloc_size.
C39_AllocationAssertions ==
    (last.op # "init" /\ last.cap # 0) => allocate_asserts(last.cap)

====
